---- MODULE Spec2Model ----
(***************************************************************************)
(* SOFUN Tracker: the spreadsheet ingestion pipeline                       *)
(* SofunDataProcessor.processExcelFile and the utilities it calls.         *)
(*                                                                         *)
(* JavaScript strings are sequences of one-character strings, so that      *)
(* trim, toUpperCase, includes and the regular expressions of the source   *)
(* are computed, not assumed.  undefined, null and '' of a sheet cell are  *)
(* all the empty sequence: the source only tests cells for truthiness.     *)
(***************************************************************************)
EXTENDS Integers, Sequences, FiniteSets, TLC

(* ---------------- bounds of the model ---------------- *)
\* number of rows of the primary sheet
MaxRows == 3
\* number of rows of the VOC sheet
\* audit entries written in one session (Date.now() is the entry's id)
MaxClock == 3
MaxVocRows == 1

(* ---------------- JavaScript string primitives ---------------- *)
LowerLetters == <<"a","b","c","d","e","f","g","h","i","j","k","l","m","n","o","p","q","r","s","t","u","v","w","x","y","z">>
UpperLetters == <<"A","B","C","D","E","F","G","H","I","J","K","L","M","N","O","P","Q","R","S","T","U","V","W","X","Y","Z">>
Digits == {"0","1","2","3","4","5","6","7","8","9"}

toUpperChar(c) ==
    IF \E k \in 1..26 : LowerLetters[k] = c
    THEN UpperLetters[CHOOSE k \in 1..26 : LowerLetters[k] = c]
    ELSE c

toLowerChar(c) ==
    IF \E k \in 1..26 : UpperLetters[k] = c
    THEN LowerLetters[CHOOSE k \in 1..26 : UpperLetters[k] = c]
    ELSE c

\* String.prototype.toUpperCase
toUpperCase(s) == [k \in 1..Len(s) |-> toUpperChar(s[k])]

\* String.prototype.toLowerCase
toLowerCase(s) == [k \in 1..Len(s) |-> toLowerChar(s[k])]

IsSpace(c) == c = " "

SetMin(S) == CHOOSE x \in S : \A y \in S : x <= y
SetMax(S) == CHOOSE x \in S : \A y \in S : x >= y

\* String.prototype.trim
trim(s) ==
    LET ink == {k \in 1..Len(s) : ~IsSpace(s[k])}
    IN  IF ink = {} THEN <<>> ELSE SubSeq(s, SetMin(ink), SetMax(ink))

\* String.prototype.includes
includes(s, sub) ==
    \E k \in 0..(Len(s) - Len(sub)) : SubSeq(s, k + 1, k + Len(sub)) = sub

\* s.replace(/\s+/g, '')
removeSpaces(s) == SelectSeq(s, LAMBDA c : ~IsSpace(c))

\* s.substring(0, n)
substring0(s, n) == SubSeq(s, 1, IF Len(s) < n THEN Len(s) ELSE n)

(* ---------------- string literals of the source ---------------- *)
\* the keywords and markers of processExcelFile and validateFile
K ==
    [PLATOON |-> <<"P", "L", "A", "T", "O", "O", "N">>,
     COY |-> <<"C", "O", "Y">>,
     HQ |-> <<"H", "Q">>,
     RANK |-> <<"R", "A", "N", "K">>,
     NAME |-> <<"N", "A", "M", "E">>,
     REG |-> <<"R", "E", "G">>,
     MISSING |-> <<"M", "I", "S", "S", "I", "N", "G">>,
     NA |-> <<"N", "A">>,
     NSF |-> <<"N", "S", "F">>,
     Regular |-> <<"R", "e", "g", "u", "l", "a", "r">>,
     Unassigned |-> <<"U", "n", "a", "s", "s", "i", "g", "n", "e", "d">>,
     PlatoonPrefix |-> <<"P", "l", "a", "t", "o", "o", "n", " ">>,
     allinoneview |-> <<"a", "l", "l", " ", "i", "n", " ", "o", "n", "e", " ", "v", "i", "e", "w">>,
     voc |-> <<"v", "o", "c">>,
     xlsx |-> <<".", "x", "l", "s", "x">>,
     xls |-> <<".", "x", "l", "s">>]

\* the lower-case keywords of validatePlatoon and of the modified export
L ==
    [coy |-> <<"c", "o", "y">>, hq |-> <<"h", "q">>, headquarters |-> <<"h", "e", "a", "d", "q", "u", "a", "r", "t", "e", "r", "s">>,
     platoon |-> <<"p", "l", "a", "t", "o", "o", "n">>, plt |-> <<"p", "l", "t">>,
     one |-> <<"o", "n", "e">>, two |-> <<"t", "w", "o">>, three |-> <<"t", "h", "r", "e", "e">>, four |-> <<"f", "o", "u", "r">>,
     support |-> <<"s", "u", "p", "p", "o", "r", "t">>, admin |-> <<"a", "d", "m", "i", "n">>, medical |-> <<"m", "e", "d", "i", "c", "a", "l">>,
     med |-> <<"m", "e", "d">>, signal |-> <<"s", "i", "g", "n", "a", "l">>, transport |-> <<"t", "r", "a", "n", "s", "p", "o", "r", "t">>,
     trans |-> <<"t", "r", "a", "n", "s">>, name |-> <<"n", "a", "m", "e">>, pes |-> <<"p", "e", "s">>, ord |-> <<"o", "r", "d">>,
     Modified |-> <<"M", "o", "d", "i", "f", "i", "e", "d", "_">>]

\* the unit names
U ==
    [Platoon1 |-> <<"P", "l", "a", "t", "o", "o", "n", " ", "1">>,
     Platoon2 |-> <<"P", "l", "a", "t", "o", "o", "n", " ", "2">>,
     Platoon3 |-> <<"P", "l", "a", "t", "o", "o", "n", " ", "3">>,
     Platoon4 |-> <<"P", "l", "a", "t", "o", "o", "n", " ", "4">>,
     COY_HQ |-> <<"C", "O", "Y", " ", "H", "Q">>,
     SupportPlatoon |-> <<"S", "u", "p", "p", "o", "r", "t", " ", "P", "l", "a", "t", "o", "o", "n">>,
     Admin |-> <<"A", "d", "m", "i", "n">>,
     Medical |-> <<"M", "e", "d", "i", "c", "a", "l">>,
     Signals |-> <<"S", "i", "g", "n", "a", "l", "s">>,
     Transport |-> <<"T", "r", "a", "n", "s", "p", "o", "r", "t">>]

\* the grades and the medical statuses
G ==
    [Gold |-> <<"G", "o", "l", "d">>,
     Silver |-> <<"S", "i", "l", "v", "e", "r">>,
     Pass |-> <<"P", "a", "s", "s">>,
     Fail |-> <<"F", "a", "i", "l">>,
     Marksman |-> <<"M", "a", "r", "k", "s", "m", "a", "n">>,
     Sharpshooter |-> <<"S", "h", "a", "r", "p", "s", "h", "o", "o", "t", "e", "r">>,
     Fit |-> <<"F", "i", "t">>,
     LightDuty |-> <<"L", "i", "g", "h", "t", " ", "D", "u", "t", "y">>,
     ExcusedIPPT |-> <<"E", "x", "c", "u", "s", "e", "d", " ", "I", "P", "P", "T">>,
     MedicalBoard |-> <<"M", "e", "d", "i", "c", "a", "l", " ", "B", "o", "a", "r", "d">>,
     Pending |-> <<"P", "e", "n", "d", "i", "n", "g">>]

(* ---------------- cell texts used as inputs ---------------- *)
Txt ==
    [AllInOneView |-> <<"A", "l", "l", " ", "i", "n", " ", "o", "n", "e", " ", "v", "i", "e", "w">>,
     ALLINONE_padded |-> <<" ", "A", "L", "L", " ", "I", "N", " ", "O", "N", "E", " ", "V", "I", "E", "W", " ">>,
     VOC |-> <<"V", "O", "C">>,
     Sheet1 |-> <<"S", "h", "e", "e", "t", "1">>,
     hdrPlatoon2 |-> <<"P", "L", "A", "T", "O", "O", "N", " ", "2">>,
     hdrPlatoon7 |-> <<"p", "l", "a", "t", "o", "o", "n", "7">>,
     hdrCoyHq |-> <<"c", "o", "y", " ", " ", "h", "q">>,
     hdrAmbiguous |-> <<"H", "Q", " ", "P", "L", "A", "T", "O", "O", "N">>,
     title |-> <<"S", "O", "F", "U", "N">>,
     SGT |-> <<"S", "G", "T">>,
     CPL |-> <<"C", "P", "L">>,
     TAN_WEI |-> <<"T", "A", "N", " ", "W", "E", "I">>,
     tan_wei_q |-> <<" ", "t", "a", "n", " ", "w", "e", "i", "'">>,
     LEE |-> <<"L", "E", "E">>,
     A1 |-> <<"A", "1">>,
     B1 |-> <<"B", "1">>,
     NSF |-> <<"N", "S", "F">>,
     REG |-> <<"R", "E", "G">>,
     regular |-> <<"R", "e", "g", "u", "l", "a", "r">>,
     Gold |-> <<"G", "o", "l", "d">>,
     Silver |-> <<"S", "i", "l", "v", "e", "r">>,
     Pass |-> <<"P", "a", "s", "s">>,
     Excellent |-> <<"E", "x", "c", "e", "l", "l", "e", "n", "t">>,
     MISSING |-> <<"M", "I", "S", "S", "I", "N", "G">>,
     missing_padded |-> <<" ", "m", "i", "s", "s", "i", "n", "g", " ">>,
     na |-> <<"n", "a">>,
     NA |-> <<"N", "A">>,
     Fail |-> <<"F", "a", "i", "l">>,
     fileXlsx |-> <<"d", "a", "t", "a", ".", "X", "L", "S", "X">>,
     fileCsv |-> <<"d", "a", "t", "a", ".", "c", "s", "v">>,
     d141125 |-> <<"1", "4", "-", "1", "1", "-", "2", "5">>,
     d2026 |-> <<"2", "0", "2", "6", "-", "0", "5", "-", "0", "1">>,
     d2019 |-> <<"0", "1", "/", "0", "1", "/", "2", "0", "1", "9">>,
     TBC |-> <<"T", "B", "C">>]

(* ---------------- constants and utilities (advanced-audit.js) ---------------- *)
VALID_PLATOONS ==
    {U.COY_HQ, U.Platoon1, U.Platoon2, U.Platoon3, U.Platoon4,
     U.SupportPlatoon, U.Admin, U.Medical, U.Signals, U.Transport}

IPPT_GRADES == {G.Gold, G.Silver, G.Pass, G.Fail}
VOC_GRADES == {G.Pass, G.Fail}
SKILL_GRADES == {G.Marksman, G.Sharpshooter, G.Pass, G.Fail}
MEDICAL_STATUS_OPTIONS == {G.Fit, G.LightDuty, G.ExcusedIPPT, G.MedicalBoard}

\* APP_CONFIG.maxFileSize = 50 * 1024 * 1024
maxFileSize == 52428800
\* APP_CONFIG.supportedFormats
supportedFormats == {K.xlsx, K.xls}

isValidPlatoon(platoonName) == platoonName \in VALID_PLATOONS

\* .substring(0, 100) of sanitizePersonnelName
NameMaxLen == 100

sanitizePersonnelName(name) ==
    IF name = <<>> THEN <<>>
    ELSE toUpperCase(substring0(
             SelectSeq(trim(name), LAMBDA c : c \notin {"<", ">", "\"", "'"}),
             NameMaxLen))

\* person.y1?.ippt and the like: undefined (falsy) when the person has no such block
slotOf(person, block, slot) ==
    IF block \in DOMAIN person THEN person[block][slot] ELSE <<>>

\* getPersonStatus(person).text for a person record
getPersonStatus(person) ==
    LET y1Any == \/ slotOf(person, "y1", "ippt") # <<>>
                 \/ slotOf(person, "y1", "voc") # <<>>
                 \/ slotOf(person, "y1", "atp") # <<>>
        y2Tests == <<slotOf(person, "y2", "ippt"), slotOf(person, "y2", "voc"),
                     slotOf(person, "y2", "range")>>
        y2Completed == Cardinality({k \in 1..Len(y2Tests) :
                                       y2Tests[k] # <<>> /\ y2Tests[k] # G.Pending})
        isRegular == person.category = K.Regular
    IN  IF y2Completed = Len(y2Tests) THEN "Y2 Completed"
        ELSE IF y2Completed > 0 THEN "Y2 In progress"
        ELSE IF isRegular THEN "Y2 Not started"
        ELSE IF y1Any THEN "Y2 Not started"
        ELSE "Y1 In progress"

\* null / undefined of a date field
Null == <<>>

(* ---------------- the uploaded file and its workbook (inputs) ---------------- *)
\* row[k] of the source (0-based); a missing cell is undefined
Cell(row, k) == IF k < Len(row) THEN row[k + 1] ELSE <<>>

\* row[k]?.toString().trim()
CellTrim(row, k) == trim(Cell(row, k))

\* the rows a primary sheet is made of
Rows ==
    [blank |-> <<<<" ">>, <<>>>>,
     hdrPlatoon2 |-> <<Txt.hdrPlatoon2>>,
     hdrPlatoon7 |-> <<Txt.hdrPlatoon7>>,
     hdrCoyHq |-> <<Txt.hdrCoyHq>>,
     hdrAmbiguous |-> <<Txt.hdrAmbiguous>>,
     title |-> <<Txt.title>>,
     columnHeader |-> <<<<>>, K.RANK, K.NAME>>,
     \* the NSF row of the Platoon 2 scenario
     tanNsf |-> <<<<>>, Txt.SGT, Txt.TAN_WEI, Txt.A1, Txt.NSF,
                  Txt.Gold, Txt.Pass, Txt.Pass, <<>>, <<>>, <<>>>>,
     \* same person, other spelling, marked REG, work-year fitness MISSING
     tanRegMissing |-> <<<<>>, Txt.CPL, Txt.tan_wei_q, Txt.B1, Txt.REG,
                         Txt.Silver, <<>>, <<>>, <<>>, <<>>, <<>>, Txt.MISSING>>,
     \* same person marked Regular with work-year results
     tanRegular |-> <<<<>>, Txt.SGT, Txt.TAN_WEI, <<>>, Txt.regular,
                      <<>>, <<>>, <<>>, <<>>, <<>>, <<>>,
                      Txt.Gold, Txt.na, <<>>, Txt.Pass>>,
     \* same person, no service marker, blanks and sentinels next to new values
     tanUpdate |-> <<<<>>, Txt.SGT, Txt.TAN_WEI, Txt.A1, <<>>,
                     <<>>, Txt.NA, Txt.Fail, Txt.Excellent, <<>>, Txt.missing_padded>>,
     \* another person
     leeNsf |-> <<<<>>, Txt.CPL, Txt.LEE, Txt.B1, Txt.NSF,
                  Txt.Silver, <<>>, <<>>, Txt.Pass, <<>>, <<>>>>]

RowSet == {Rows[f] : f \in DOMAIN Rows}

\* rows of one person whose results come in over several rows
StatusRows ==
    [tanY2 |-> <<<<>>, Txt.SGT, Txt.TAN_WEI, Txt.A1, Txt.NSF,
                 <<>>, <<>>, <<>>, Txt.Pass, Txt.Pass, Txt.Pass>>,
     tanPending |-> <<<<>>, Txt.SGT, Txt.TAN_WEI, Txt.A1, <<>>,
                      <<>>, <<>>, <<>>, G.Pending>>,
     tanNsfBare |-> <<<<>>, Txt.SGT, Txt.TAN_WEI, Txt.A1, Txt.NSF>>]

StatusRowSet == {StatusRows[f] : f \in DOMAIN StatusRows}

RowSeqs == UNION {[1..n -> RowSet] : n \in 0..MaxRows}

\* a cell of the VOC sheet: a string, a number or a Date object
StrCell(s) == [t |-> "string", s |-> s, n |-> 0]
NumCell(n) == [t |-> "number", s |-> <<>>, n |-> n]
DateCell(n) == [t |-> "object", s |-> <<>>, n |-> n]

\* the rows a VOC sheet is made of: rank, name, Y1 last window (F), ORD date (G)
VocRows ==
    [tan |-> <<StrCell(<<>>), StrCell(Txt.SGT), StrCell(Txt.tan_wei_q), StrCell(<<>>),
               StrCell(<<>>), StrCell(Txt.d141125), StrCell(Txt.d2026)>>,
     leeOld |-> <<StrCell(<<>>), StrCell(Txt.CPL), StrCell(Txt.LEE), StrCell(<<>>),
                  StrCell(<<>>), StrCell(<<>>), StrCell(Txt.d2019)>>,
     tanSerial |-> <<StrCell(<<>>), StrCell(Txt.SGT), StrCell(Txt.TAN_WEI), StrCell(<<>>),
                     StrCell(<<>>), DateCell(46000), NumCell(46000)>>,
     leeCompact |-> <<StrCell(<<>>), StrCell(Txt.CPL), StrCell(Txt.LEE), StrCell(<<>>),
                      StrCell(<<>>), StrCell(<<>>), NumCell(141125)>>]

VocRowSet == {VocRows[f] : f \in DOMAIN VocRows}

VocSeqs == UNION {[1..n -> VocRowSet] : n \in 0..MaxVocRows}

\* the rows of a primary sheet that comes with a VOC sheet
JoinRowSet == {Rows.tanNsf, Rows.tanRegMissing, Rows.leeNsf}

JoinRowSeqs == UNION {[1..n -> JoinRowSet] : n \in 0..MaxRows}

StatusRowSeqs == UNION {[1..n -> StatusRowSet] : n \in 1..MaxRows}

\* the workbooks: the sheet names in order, the rows of the sheet named
\* 'All in one view' and the rows of the sheet named 'VOC' (<<>> when absent)
Workbooks ==
    {[names |-> <<Txt.AllInOneView>>, primary |-> r, voc |-> <<>>] :
         r \in RowSeqs \cup StatusRowSeqs}
    \cup {[names |-> <<Txt.VOC, Txt.ALLINONE_padded>>, primary |-> r, voc |-> v] :
              r \in JoinRowSeqs, v \in VocSeqs}
    \cup {[names |-> <<Txt.AllInOneView, Txt.Sheet1>>, primary |-> r, voc |-> <<>>] :
              r \in JoinRowSeqs}
    \cup {[names |-> <<Txt.VOC>>, primary |-> <<>>, voc |-> v] : v \in VocSeqs}
    \cup {[names |-> <<Txt.Sheet1>>, primary |-> <<>>, voc |-> <<>>]}

\* the files a user uploads: size in bytes and name
Upload ==
    [ok |-> [size |-> 20480, name |-> Txt.fileXlsx],
     tooLarge |-> [size |-> maxFileSize + 1, name |-> Txt.fileXlsx],
     wrongFormat |-> [size |-> 20480, name |-> Txt.fileCsv]]

Files == {Upload[f] : f \in DOMAIN Upload}

\* availableSheets.find(name => name.trim().toLowerCase() === wanted)
findSheet(names, wanted) ==
    LET hits == {k \in 1..Len(names) : toLowerCase(trim(names[k])) = wanted}
    IN  IF hits = {} THEN 0 ELSE SetMin(hits)

(* ---------------- dates ---------------- *)
\* A Date is <<year, month, day>>; every date of this pipeline is a UTC midnight.
DigitChars == <<"0","1","2","3","4","5","6","7","8","9">>
digitValue(c) == (CHOOSE k \in 1..10 : DigitChars[k] = c) - 1
isDigits(s) == \A k \in 1..Len(s) : s[k] \in Digits

RECURSIVE parseInt(_)
parseInt(s) ==
    IF s = <<>> THEN 0
    ELSE 10 * parseInt(SubSeq(s, 1, Len(s) - 1)) + digitValue(s[Len(s)])

RECURSIVE toDecimal(_)
\* Number.prototype.toString of a non-negative integer
toDecimal(n) ==
    IF n < 10 THEN <<DigitChars[n + 1]>>
    ELSE Append(toDecimal(n \div 10), DigitChars[(n % 10) + 1])

isLeapYear(y) == (y % 4 = 0 /\ y % 100 # 0) \/ y % 400 = 0
daysInMonth(y, m) ==
    IF m = 2 THEN (IF isLeapYear(y) THEN 29 ELSE 28)
    ELSE IF m \in {4, 6, 9, 11} THEN 30 ELSE 31

\* new Date(`${year}-${MM}-${DD}`) for texts of digits: a calendar date gives
\* that date at UTC midnight.  A month outside 1..12 or a day outside 1..31 is
\* an Invalid Date; the inputs of this model contain no day that exceeds its
\* month's length (engines disagree on those).
newDateYMD(year, month, day) ==
    LET y == parseInt(year)
        m == parseInt(month)
        d == parseInt(day)
    IN  IF Len(year) = 4 /\ Len(month) = 2 /\ Len(day) = 2
           /\ m \in 1..12 /\ d >= 1 /\ d <= daysInMonth(y, m)
        THEN <<y, m, d>>
        ELSE Null

padStart2(s) == IF Len(s) < 2 THEN <<"0">> \o s ELSE s

\* the three groups of /^(\d{a1,b1})SEP(\d{a2,b2})SEP(\d{a3,b3})$/, or <<>>
matchThree(s, sep, lens) ==
    LET pos == {k \in 1..Len(s) : s[k] = sep}
    IN  IF Cardinality(pos) # 2 THEN <<>>
        ELSE LET p1 == SetMin(pos)
                 p2 == SetMax(pos)
                 g1 == SubSeq(s, 1, p1 - 1)
                 g2 == SubSeq(s, p1 + 1, p2 - 1)
                 g3 == SubSeq(s, p2 + 1, Len(s))
             IN  IF /\ isDigits(g1) /\ isDigits(g2) /\ isDigits(g3)
                    /\ Len(g1) \in lens[1] /\ Len(g2) \in lens[2] /\ Len(g3) \in lens[3]
                 THEN <<g1, g2, g3>>
                 ELSE <<>>

\* new Date(text) for a text none of the patterns accepted: the texts of this
\* model that reach it ("TBC") are not dates
newDateFromText(s) == Null

\* SofunDataProcessor.parseDate; the argument is a raw cell
parseDate(dateStr) ==
    IF dateStr.t # "string" \/ dateStr.s = <<>> THEN Null
    ELSE
    LET cleanDate == trim(dateStr.s)
        dmyDash == matchThree(cleanDate, "-", <<1..2, 1..2, 2..4>>)
        dmySlash == matchThree(cleanDate, "/", <<1..2, 1..2, 2..4>>)
        iso == matchThree(cleanDate, "-", <<{4}, 1..2, 1..2>>)
        fullYear(y) == IF Len(y) = 2 THEN <<"2", "0">> \o y ELSE y
        fromDash == IF dmyDash = <<>> THEN Null
                    ELSE newDateYMD(fullYear(dmyDash[3]), padStart2(dmyDash[2]), padStart2(dmyDash[1]))
        fromSlash == IF dmySlash = <<>> THEN Null
                     ELSE newDateYMD(fullYear(dmySlash[3]), padStart2(dmySlash[2]), padStart2(dmySlash[1]))
        fromIso == IF iso = <<>> THEN Null
                   ELSE newDateYMD(iso[1], padStart2(iso[2]), padStart2(iso[3]))
        compact == Len(cleanDate) = 6 /\ isDigits(cleanDate)
        fromCompact ==
            IF ~compact THEN Null
            ELSE LET yy == SubSeq(cleanDate, 5, 6)
                 IN  newDateYMD((IF parseInt(yy) < 50 THEN <<"2", "0">> ELSE <<"1", "9">>) \o yy,
                                SubSeq(cleanDate, 3, 4), SubSeq(cleanDate, 1, 2))
    IN  IF cleanDate = <<>> THEN Null
        ELSE IF fromDash # Null THEN fromDash
        ELSE IF fromSlash # Null THEN fromSlash
        ELSE IF fromIso # Null THEN fromIso
        ELSE IF fromCompact # Null THEN fromCompact
        ELSE newDateFromText(cleanDate)

\* d1 < d2 on Dates
dateBefore(d1, d2) ==
    \/ d1[1] < d2[1]
    \/ d1[1] = d2[1] /\ d1[2] < d2[2]
    \/ d1[1] = d2[1] /\ d1[2] = d2[2] /\ d1[3] < d2[3]

\* new Date('2020-01-01') of validateDateInput
minDate == <<2020, 1, 1>>

\* validateDateInput(date, true) for a Date object: truthy iff not before minDate
validateDateInput(date, allowFuture) ==
    IF date = Null THEN FALSE
    ELSE ~dateBefore(date, minDate)

\* the day the import runs
Today == <<2026, 11, 1>>

\* generateRandomOrdDate: today plus monthsToAdd months, 3 <= monthsToAdd <= 11
MonthsToAdd == 3..11
addMonths(date, k) ==
    LET m0 == (date[2] - 1) + k
    IN  <<date[1] + (m0 \div 12), (m0 % 12) + 1, date[3]>>
generateRandomOrdDate(monthsToAdd) == addMonths(Today, monthsToAdd)

(* ---------------- VOC sheet pre-scan (processExcelFile, 71-115) ---------------- *)
\* cell?.toString() of a VOC cell
cellText(c) ==
    IF c.t = "string" THEN c.s
    ELSE IF c.t = "number" THEN toDecimal(c.n)
    ELSE <<"[", "D", "a", "t", "e", "]">>

\* truthiness of a raw cell
truthy(c) ==
    IF c.t = "string" THEN c.s # <<>>
    ELSE IF c.t = "number" THEN c.n # 0
    ELSE TRUE

VocCell(row, k) == IF k < Len(row) THEN row[k + 1] ELSE StrCell(<<>>)

\* the rank / name test shared by both data-start scans
looksLikePerson(rank, name) ==
    /\ rank # <<>> /\ name # <<>>
    /\ Len(rank) > 0 /\ Len(name) > 2
    /\ ~includes(toUpperCase(rank), K.RANK)
    /\ ~includes(toUpperCase(name), K.NAME)

\* default start row and number of rows the scans look at
DefaultDataStartRow == 4
ScanLimit == 10

vocDataStartRow(vocRows) ==
    LET n == IF Len(vocRows) < ScanLimit THEN Len(vocRows) ELSE ScanLimit
        hits == {k \in 0..(n - 1) :
                    /\ Len(vocRows[k + 1]) > 2
                    /\ looksLikePerson(trim(cellText(VocCell(vocRows[k + 1], 1))),
                                       trim(cellText(VocCell(vocRows[k + 1], 2))))}
    IN  IF hits = {} THEN DefaultDataStartRow ELSE SetMin(hits)

MapSet(m, k, v) == (k :> v) @@ m
MapHas(m, k) == k \in DOMAIN m

RECURSIVE vocExtract(_, _, _)
\* rows k.. of the VOC sheet folded into [y1, ord, y2], the three date maps
vocExtract(vocRows, k, maps) ==
    IF k >= Len(vocRows) THEN maps
    ELSE
    LET row == vocRows[k + 1]
        name == trim(cellText(VocCell(row, 2)))
        y1WindowRaw == VocCell(row, 5)
        ordRaw == VocCell(row, 6)
        y2WindowRaw == VocCell(row, 6)
        nameKey == sanitizePersonnelName(name)
        next ==
            IF name = <<>> THEN maps
            ELSE [y1 |-> IF truthy(y1WindowRaw) THEN MapSet(maps.y1, nameKey, parseDate(y1WindowRaw)) ELSE maps.y1,
                  ord |-> IF truthy(ordRaw) THEN MapSet(maps.ord, nameKey, parseDate(ordRaw)) ELSE maps.ord,
                  y2 |-> IF truthy(y2WindowRaw) THEN MapSet(maps.y2, nameKey, parseDate(y2WindowRaw)) ELSE maps.y2]
    IN  vocExtract(vocRows, k + 1, next)

(* ---------------- row classification (processExcelFile, 126-183) ---------------- *)
supportUnits == <<U.COY_HQ, U.SupportPlatoon, U.Admin, U.Medical, U.Signals, U.Transport>>

\* platoonHeaderRaw.match(/^PLATOON\s*(\d)$/i)
matchesPlatoonDigit(raw) ==
    LET u == toUpperCase(raw)
    IN  /\ Len(u) >= 8
        /\ SubSeq(u, 1, 7) = K.PLATOON
        /\ u[Len(u)] \in Digits
        /\ \A k \in 8..(Len(u) - 1) : IsSpace(u[k])

\* a header test that takes any first cell with the word PLATOON for Platoon 1
platoonHeaderOf_anyPlatoon(row) ==
    IF includes(toUpperCase(CellTrim(row, 0)), K.PLATOON) THEN U.Platoon1 ELSE <<>>

\* the platoonHeader of a row: a unit name, or '' when the row is no header
platoonHeaderOf(row) ==
    LET platoonHeaderRaw == CellTrim(row, 0)
        hits == {k \in 1..Len(supportUnits) :
                    toUpperCase(removeSpaces(platoonHeaderRaw))
                        = toUpperCase(removeSpaces(supportUnits[k]))}
    IN  IF platoonHeaderRaw = <<>> THEN <<>>
        ELSE IF matchesPlatoonDigit(platoonHeaderRaw)
             THEN K.PlatoonPrefix \o <<platoonHeaderRaw[Len(platoonHeaderRaw)]>>
        ELSE IF hits # {} THEN supportUnits[SetMin(hits)]
        ELSE <<>>

\* the else-if of line 172: a unit keyword in a first cell that is no header
isAmbiguousHeader(row) ==
    LET platoonHeaderRaw == CellTrim(row, 0)
        u == toUpperCase(platoonHeaderRaw)
    IN  /\ platoonHeaderRaw # <<>>
        /\ (includes(u, K.PLATOON) \/ includes(u, K.COY) \/ includes(u, K.HQ))

\* line 143
isBlankRow(row) == Len(row) = 0 \/ \A k \in 1..Len(row) : trim(row[k]) = <<>>

\* lines 127-138
findDataStartRow(rows) ==
    LET n == IF Len(rows) < ScanLimit THEN Len(rows) ELSE ScanLimit
        hits == {k \in 0..(n - 1) :
                    /\ Len(rows[k + 1]) > 2
                    /\ looksLikePerson(CellTrim(rows[k + 1], 1), CellTrim(rows[k + 1], 2))}
    IN  IF hits = {} THEN DefaultDataStartRow ELSE SetMin(hits)

\* what the main loop does with a row
rowKind(row) ==
    IF isBlankRow(row) THEN "blank"
    ELSE IF platoonHeaderOf(row) # <<>> THEN "header"
    ELSE IF isAmbiguousHeader(row) THEN "ambiguous"
    ELSE IF CellTrim(row, 1) = <<>> \/ CellTrim(row, 2) = <<>> THEN "noise"
    ELSE "personnel"

(* ---------------- building and merging a record (198-286) ---------------- *)
\* the merge key taken from the cell as it is
rowKey_rawName(row) == CellTrim(row, 2)

\* line 198
rowKey(row) == sanitizePersonnelName(CellTrim(row, 2))

\* lines 200-201
rowCategory(row) ==
    IF includes(toUpperCase(CellTrim(row, 4)), K.REG) THEN K.Regular ELSE K.NSF

\* lines 203-225
newRecord(key, personnelCategory, curPlatoon, rank, pes, now) ==
    LET baseRecord ==
            [name |-> key,
             category |-> personnelCategory,
             platoon |-> IF curPlatoon # <<>> THEN curPlatoon ELSE K.Unassigned,
             unit |-> IF curPlatoon # <<>> THEN curPlatoon ELSE K.Unassigned,
             rank |-> rank,
             pes |-> pes,
             lastUpdated |-> now,
             ordDate |-> Null,
             isORD |-> FALSE,
             medicalStatus |-> G.Fit,
             remedialTraining |-> <<>>]
    IN  IF personnelCategory = K.Regular
        THEN baseRecord @@
             [workYear |-> [ippt |-> <<>>, ipptDate |-> Null, voc |-> <<>>, vocDate |-> Null,
                            atp |-> <<>>, atpDate |-> Null, cs |-> <<>>, csDate |-> Null]]
        ELSE baseRecord @@
             [y1 |-> [ippt |-> <<>>, ipptDate |-> Null, voc |-> <<>>, vocDate |-> Null,
                      atp |-> <<>>, atpDate |-> Null],
              y2 |-> [ippt |-> <<>>, ipptDate |-> Null, voc |-> <<>>, vocDate |-> Null,
                      range |-> <<>>, rangeDate |-> Null],
              y1WindowEndDate |-> Null]

\* person[f] = v, creating the property when the object lacks it
SetField(person, f, v) == (f :> v) @@ person
\* person[f], undefined (falsy) when the object lacks it
FieldOr(person, f) == IF f \in DOMAIN person THEN person[f] ELSE Null

\* personnelMap: the records in insertion order, keyed by their name
mapIndex(m, key) == CHOOSE k \in 1..Len(m) : m[k].name = key
mapHas(m, key) == \E k \in 1..Len(m) : m[k].name = key

\* lines 232-235
updateAdmin(person, row, curPlatoon) ==
    LET rank == CellTrim(row, 1)
        pes == CellTrim(row, 3)
        service == CellTrim(row, 4)
        p1 == IF curPlatoon # <<>> /\ person.platoon # curPlatoon
              THEN [person EXCEPT !.platoon = curPlatoon] ELSE person
        p2 == IF rank # <<>> /\ p1.rank # rank THEN [p1 EXCEPT !.rank = rank] ELSE p1
        p3 == IF pes # <<>> /\ p2.pes # pes THEN [p2 EXCEPT !.pes = pes] ELSE p2
    IN  IF service # <<>> /\ p3.category # rowCategory(row)
        THEN [p3 EXCEPT !.category = rowCategory(row)] ELSE p3

\* lines 237-250
joinVocDates(person, key, ordMap, y1Map, y2Map) ==
    IF person.category # K.NSF THEN person
    ELSE
    LET p1 == IF MapHas(ordMap, key) THEN [person EXCEPT !.ordDate = ordMap[key]] ELSE person
        p2 == IF MapHas(y1Map, key) THEN SetField(p1, "y1WindowEndDate", y1Map[key]) ELSE p1
    IN  IF MapHas(y2Map, key) THEN SetField(p2, "y2WindowEndDate", y2Map[key])
        ELSE IF FieldOr(p2, "y2WindowEndDate") = Null /\ p2.ordDate # Null
             THEN SetField(p2, "y2WindowEndDate", p2.ordDate)
        ELSE p2

\* column -> slot tables of lines 187-196
RegularSlots ==
    <<[col |-> 11, block |-> "workYear", slot |-> "ippt"],
      [col |-> 12, block |-> "workYear", slot |-> "voc"],
      [col |-> 13, block |-> "workYear", slot |-> "atp"],
      [col |-> 14, block |-> "workYear", slot |-> "cs"]>>
NsfSlots ==
    <<[col |-> 5, block |-> "y1", slot |-> "ippt"],
      [col |-> 6, block |-> "y1", slot |-> "voc"],
      [col |-> 7, block |-> "y1", slot |-> "atp"],
      [col |-> 8, block |-> "y2", slot |-> "ippt"],
      [col |-> 9, block |-> "y2", slot |-> "voc"],
      [col |-> 10, block |-> "y2", slot |-> "range"]>>

\* the sentinel test without toUpperCase
isStorable_caseSensitive(v) == v # <<>> /\ v # K.MISSING /\ v # K.NA

\* v && v.toUpperCase() !== 'MISSING' && v.toUpperCase() !== 'NA'
isStorable(v) == v # <<>> /\ toUpperCase(v) # K.MISSING /\ toUpperCase(v) # K.NA

slotsFor(person) == IF person.category = K.Regular THEN RegularSlots ELSE NsfSlots

\* person.workYear.ippt = v on a person without workYear is a TypeError
assignThrows(person, row) ==
    \E k \in 1..Len(slotsFor(person)) :
        /\ isStorable(CellTrim(row, slotsFor(person)[k].col))
        /\ slotsFor(person)[k].block \notin DOMAIN person

RECURSIVE assignFrom(_, _, _, _)
assignFrom(person, row, slots, k) ==
    IF k > Len(slots) THEN person
    ELSE LET v == CellTrim(row, slots[k].col)
         IN  assignFrom(IF isStorable(v)
                        THEN [person EXCEPT ![slots[k].block][slots[k].slot] = v]
                        ELSE person,
                        row, slots, k + 1)

\* lines 252-286, when no assignment throws
assignResults(person, row) == assignFrom(person, row, slotsFor(person), 1)

(* ---------------- post-pass validation (1135-1152) ---------------- *)
Warning(kind, row, name) == [kind |-> kind, row |-> row, name |-> name]

needsOrdFix(person) ==
    person.ordDate # Null /\ ~validateDateInput(person.ordDate, TRUE)

\* the record after validateAndCleanPersonnelRecord; months is the draw of
\* generateRandomOrdDate for this record
validateAndCleanPersonnelRecord(person, months) ==
    LET p1 == IF ~isValidPlatoon(person.platoon)
              THEN [person EXCEPT !.platoon =
                        IF person.category = K.NSF THEN U.Platoon1 ELSE U.COY_HQ]
              ELSE person
        p2 == IF p1.medicalStatus \notin MEDICAL_STATUS_OPTIONS
              THEN [p1 EXCEPT !.medicalStatus = G.Fit] ELSE p1
    IN  IF needsOrdFix(p2)
        THEN [p2 EXCEPT !.ordDate =
                 IF p2.category = K.NSF THEN generateRandomOrdDate(months) ELSE Null]
        ELSE p2

\* the warnings validateAndCleanPersonnelRecord pushes for a record
validationWarnings(person) ==
    (IF ~isValidPlatoon(person.platoon)
     THEN <<Warning("invalid platoon", 0, person.name)>> ELSE <<>>)
    \o (IF needsOrdFix(person)
        THEN <<Warning("invalid ORD date", 0, person.name)>> ELSE <<>>)

RECURSIVE allValidationWarnings(_, _)
allValidationWarnings(m, k) ==
    IF k > Len(m) THEN <<>>
    ELSE validationWarnings(m[k]) \o allValidationWarnings(m, k + 1)

(* ---------------- the audit logs (app.js 880-910, storage.js 209-262) ---------------- *)
\* APP_CONFIG.maxAuditEntries
maxAuditEntries == 100

\* log.slice(0, APP_CONFIG.maxAuditEntries)
capped(log) ==
    SubSeq(log, 1, IF Len(log) > maxAuditEntries THEN maxAuditEntries ELSE Len(log))

\* an entry made at time t (id: Date.now()); about is the text the action names
AuditEntry(t, action, about) == [id |-> t, action |-> action, about |-> about]

\* unshift without the cap
appAddAuditEntry_uncapped(log, entry) == <<entry>> \o log

\* SofunApp.addAuditEntry: unshift onto the in-memory log, then the cap
appAddAuditEntry(log, entry) ==
    IF Len(log) + 1 > maxAuditEntries THEN SubSeq(<<entry>> \o log, 1, maxAuditEntries)
    ELSE <<entry>> \o log

\* SofunStorage.saveAuditLog: what localStorage holds afterwards
saveAuditLog(log) == capped(log)

\* SofunStorage.addAuditEntry: load the persisted log, unshift, save
storageAddAuditEntry(persisted, entry) == saveAuditLog(<<entry>> \o persisted)

\* the entry every start of the application persists (app.js 710)
Initialized == "initialized"

(* ---------------- state ---------------- *)
VARIABLES
    file,            \* the uploaded file
    sheetNames,      \* Object.keys(workbook.Sheets)
    allInOneSheet,   \* rows of the sheet named 'All in one view', if any
    vocSheet,        \* rows of the sheet named 'VOC', if any
    pc,              \* position in processExcelFile
    workbook,        \* Object.keys(workbook.Sheets) of the local workbook
    rawData, ordDateMap, y1WindowMap, y2WindowMap,
    personnelMap, errors, warnings, currentPlatoon,
    processed, personnelCount, skippedRows, dataStartRow, i,
    result,          \* the value processExcelFile resolves to
    personnelData,   \* SofunApp.personnelData, the loaded dataset
    originalWorkbook, \* SofunApp.originalWorkbook
    reimported,      \* the file the user picked for a second import, "no" before
    platoonCall,     \* a call of validatePlatoon: its argument and what it returned
    auditLog,        \* SofunApp.auditLog, newest entry first
    storedPersonnel, \* localStorage 'sofunData' (.personnel), Null before the first save
    storedAuditLog,  \* localStorage 'auditLog' (.entries)
    clock,           \* Date.now(), relative to the start of the session
    currentEditIndex, \* PersonnelManager.currentEditIndex
    form,            \* the values of the edit form's fields
    opened,          \* the name of the person the open modal was loaded from, Null when closed
    selectedPersonnel, \* PersonnelManager.selectedPersonnel
    fileInput,       \* the file chosen in #excelFile, Null when none
    processBtnDisabled, \* #processFileBtn.disabled
    fileStatus,      \* #fileStatus.className
    resetTimers      \* pending timers of the 3 s post-success reset

vars == <<file, sheetNames, allInOneSheet, vocSheet, pc, workbook, rawData, ordDateMap,
          y1WindowMap, y2WindowMap, personnelMap, errors, warnings,
          currentPlatoon, processed, personnelCount, skippedRows,
          dataStartRow, i, result, personnelData, originalWorkbook, reimported,
          platoonCall, auditLog, storedPersonnel, storedAuditLog, clock,
          currentEditIndex, form, opened, selectedPersonnel,
          fileInput, processBtnDisabled, fileStatus, resetTimers>>

inputs == <<file, sheetNames, allInOneSheet, vocSheet>>
logs == <<auditLog, storedAuditLog, clock>>
modal == <<currentEditIndex, form, opened>>
desk == <<logs, storedPersonnel, modal, selectedPersonnel>>
upload == <<fileInput, processBtnDisabled, fileStatus, resetTimers>>
app == <<personnelData, originalWorkbook, reimported, platoonCall, desk, upload>>
locals == <<workbook, rawData, ordDateMap, y1WindowMap, y2WindowMap, personnelMap, errors,
            warnings, currentPlatoon, processed, personnelCount, skippedRows,
            dataStartRow, i>>
rowLocals == <<workbook, rawData, ordDateMap, y1WindowMap, y2WindowMap, dataStartRow>>

\* no call of validatePlatoon was made
NoCall == [platoon |-> <<>>, returned |-> <<>>, called |-> FALSE]

NoResult == [success |-> FALSE, data |-> <<>>, recordCount |-> 0,
             errors |-> <<>>, warnings |-> <<>>]

\* a catch block that returns the local errors list
Failure_localErrors(message) ==
    [success |-> FALSE, data |-> <<>>, recordCount |-> 0,
     errors |-> <<>>, warnings |-> <<>>]

\* the catch block, lines 302-311
Failure(message) == [success |-> FALSE, data |-> <<>>, recordCount |-> 0,
                     errors |-> <<message>>, warnings |-> <<>>]

\* the locals of processExcelFile before its first statement
FreshLocals ==
    /\ workbook = <<>>
    /\ rawData = <<>>
    /\ ordDateMap = <<>> /\ y1WindowMap = <<>> /\ y2WindowMap = <<>>
    /\ personnelMap = <<>>
    /\ errors = <<>> /\ warnings = <<>>
    /\ currentPlatoon = <<>>
    /\ processed = 0 /\ personnelCount = 0 /\ skippedRows = 0
    /\ dataStartRow = DefaultDataStartRow
    /\ i = 0
    /\ result = NoResult

\* the state in which processExcelFile is entered
Entry ==
    /\ pc = "start"
    /\ FreshLocals

\* the edit form before any record was opened
EmptyForm ==
    [name |-> <<>>, pes |-> <<>>, platoon |-> <<>>, ordDate |-> <<>>, medicalStatus |-> <<>>,
     y1 |-> [ippt |-> <<>>, ipptDate |-> <<>>, voc |-> <<>>, vocDate |-> <<>>,
             atp |-> <<>>, atpDate |-> <<>>],
     y2 |-> [ippt |-> <<>>, ipptDate |-> <<>>, voc |-> <<>>, vocDate |-> <<>>,
             range |-> <<>>, rangeDate |-> <<>>],
     workYear |-> [ippt |-> <<>>, ipptDate |-> <<>>, voc |-> <<>>, vocDate |-> <<>>,
                   atp |-> <<>>, atpDate |-> <<>>, cs |-> <<>>, csDate |-> <<>>]]

\* the application after init() on a first run (app.js 647-710): nothing
\* loaded, no modal, no selection, and the start entry persisted
FreshDesk ==
    /\ auditLog = <<>>
    /\ storedPersonnel = Null
    /\ storedAuditLog = <<AuditEntry(0, Initialized, <<>>)>>
    /\ clock = 1
    /\ currentEditIndex = -1
    /\ form = EmptyForm
    /\ opened = Null
    /\ selectedPersonnel = <<>>

\* the upload controls once Process was clicked for the chosen file
\* (app.js 985-994)
Processing ==
    /\ fileInput = [file |-> file, names |-> sheetNames, primary |-> allInOneSheet,
                    voc |-> vocSheet]
    /\ processBtnDisabled = TRUE
    /\ fileStatus = "processing"
    /\ resetTimers = 0

\* the application before its first import
Fresh ==
    /\ personnelData = <<>>
    /\ originalWorkbook = Null
    /\ reimported = "no"
    /\ platoonCall = NoCall
    /\ FreshDesk
    /\ Processing

Init ==
    /\ file \in Files
    /\ \E w \in Workbooks :
           /\ sheetNames = w.names
           /\ allInOneSheet = w.primary
           /\ vocSheet = w.voc
           \* a rejected file is never read
           /\ (file # Upload.ok => w.names = <<Txt.Sheet1>>)
    /\ Entry
    /\ Fresh

(* ---------------- processExcelFile, step by step ---------------- *)
\* file.name.toLowerCase().endsWith(format)
endsWith(s, suffix) ==
    Len(s) >= Len(suffix) /\ SubSeq(s, Len(s) - Len(suffix) + 1, Len(s)) = suffix

validateFileError ==
    IF file.size > maxFileSize THEN "File too large"
    ELSE IF ~\E f \in supportedFormats : endsWith(toLowerCase(file.name), f)
         THEN "Unsupported file format"
    ELSE "none"

\* validateFile throws (line 28); the catch block returns the failure
RejectFile ==
    /\ pc = "start"
    /\ validateFileError # "none"
    /\ result' = Failure(validateFileError)
    /\ pc' = "done"
    /\ UNCHANGED <<inputs, app, locals>>

\* what js/excel-worker.js posts back for a file with these sheets: the row
\* grids of the primary sheet and of the VOC sheet, each only when the file has it
workerReply(names) ==
    [ok |-> TRUE,
     allInOneData |-> findSheet(names, K.allinoneview) # 0,
     vocData |-> findSheet(names, K.voc) # 0]

\* lines 47-52: the keys of the workbook rebuilt from a reply, <<>> when the
\* reply is not used
rehydrated(reply) ==
    IF reply.ok /\ (reply.allInOneData \/ reply.vocData)
    THEN (IF reply.allInOneData THEN <<Txt.AllInOneView>> ELSE <<>>)
         \o (IF reply.vocData THEN <<Txt.VOC>> ELSE <<>>)
    ELSE <<>>

\* lines 30-53: the worker answers and its reply is used
ParseInWorker ==
    /\ pc = "start"
    /\ validateFileError = "none"
    /\ rehydrated(workerReply(sheetNames)) # <<>>
    /\ workbook' = rehydrated(workerReply(sheetNames))
    /\ pc' = "sheets"
    /\ UNCHANGED <<inputs, app, rawData, ordDateMap, y1WindowMap, y2WindowMap,
                   personnelMap, errors, warnings, currentPlatoon, processed,
                   personnelCount, skippedRows, dataStartRow, i, result>>

\* lines 54-57: window.Worker is undefined, the constructor or the worker
\* throws, or the reply is not ok or empty; XLSX.read parses the file
ReadWorkbook ==
    /\ pc = "start"
    /\ validateFileError = "none"
    /\ workbook' = sheetNames
    /\ pc' = "sheets"
    /\ UNCHANGED <<inputs, app, rawData, ordDateMap, y1WindowMap, y2WindowMap,
                   personnelMap, errors, warnings, currentPlatoon, processed,
                   personnelCount, skippedRows, dataStartRow, i, result>>

\* no sheet is named 'All in one view' (lines 60-66); the catch block returns
MissingSheet ==
    /\ pc = "sheets"
    /\ findSheet(workbook, K.allinoneview) = 0
    /\ result' = Failure("Missing required sheet")
    /\ pc' = "done"
    /\ UNCHANGED <<inputs, app, locals>>

\* lines 60-69: the primary sheet is found and read
OpenSheet ==
    /\ pc = "sheets"
    /\ findSheet(workbook, K.allinoneview) # 0
    /\ rawData' = allInOneSheet
    /\ pc' = "voc"
    /\ UNCHANGED <<inputs, app, workbook, ordDateMap, y1WindowMap, y2WindowMap, personnelMap,
                   errors, warnings, currentPlatoon, processed, personnelCount,
                   skippedRows, dataStartRow, i, result>>

\* lines 72-115 with a VOC sheet
ExtractVoc ==
    /\ pc = "voc"
    /\ findSheet(workbook, K.voc) # 0
    /\ LET maps == vocExtract(vocSheet, vocDataStartRow(vocSheet),
                              [y1 |-> <<>>, ord |-> <<>>, y2 |-> <<>>])
       IN  /\ ordDateMap' = maps.ord
           /\ y1WindowMap' = maps.y1
           /\ y2WindowMap' = maps.y2
    /\ pc' = "scan"
    /\ UNCHANGED <<inputs, app, workbook, rawData, personnelMap, errors, warnings, currentPlatoon,
                   processed, personnelCount, skippedRows, dataStartRow, i, result>>

\* lines 72-78 without a VOC sheet
NoVocSheet ==
    /\ pc = "voc"
    /\ findSheet(workbook, K.voc) = 0
    /\ pc' = "scan"
    /\ UNCHANGED <<inputs, app, locals, result>>

\* lines 126-141
FindDataStart ==
    /\ pc = "scan"
    /\ dataStartRow' = findDataStartRow(rawData)
    /\ i' = findDataStartRow(rawData)
    /\ pc' = "rows"
    /\ UNCHANGED <<inputs, app, workbook, rawData, ordDateMap, y1WindowMap, y2WindowMap,
                   personnelMap, errors, warnings, currentPlatoon, processed,
                   personnelCount, skippedRows, result>>

atRow(kind) == pc = "rows" /\ i < Len(rawData) /\ rowKind(rawData[i + 1]) = kind

\* lines 143-146
BlankRow ==
    /\ atRow("blank")
    /\ skippedRows' = skippedRows + 1
    /\ i' = i + 1
    /\ UNCHANGED <<inputs, app, rowLocals, pc, personnelMap, errors, warnings,
                   currentPlatoon, processed, personnelCount, result>>

\* lines 168-171
PlatoonHeaderRow ==
    /\ atRow("header")
    /\ currentPlatoon' = platoonHeaderOf(rawData[i + 1])
    /\ i' = i + 1
    /\ UNCHANGED <<inputs, app, rowLocals, pc, personnelMap, errors, warnings,
                   processed, personnelCount, skippedRows, result>>

\* lines 172-175
AmbiguousHeaderRow ==
    /\ atRow("ambiguous")
    /\ warnings' = Append(warnings, Warning("ambiguous header", i + 1, <<>>))
    /\ i' = i + 1
    /\ UNCHANGED <<inputs, app, rowLocals, pc, personnelMap, errors, currentPlatoon,
                   processed, personnelCount, skippedRows, result>>

\* lines 179-183
MissingRankOrNameRow ==
    /\ atRow("noise")
    /\ warnings' = Append(warnings, Warning("missing name or rank", i + 1, <<>>))
    /\ skippedRows' = skippedRows + 1
    /\ i' = i + 1
    /\ UNCHANGED <<inputs, app, rowLocals, pc, personnelMap, errors, currentPlatoon,
                   processed, personnelCount, result>>

\* the personnelMap after lines 198-250 for the row at i, and the person's index
\* (new Date() of line 210 is stood for by the 1-based number of the row)
upserted ==
    LET row == rawData[i + 1]
        key == rowKey(row)
        m1 == IF mapHas(personnelMap, key) THEN personnelMap
              ELSE Append(personnelMap,
                          newRecord(key, rowCategory(row), currentPlatoon,
                                    CellTrim(row, 1), CellTrim(row, 3), i + 1))
        k == mapIndex(m1, key)
        person == joinVocDates(updateAdmin(m1[k], row, currentPlatoon), key,
                               ordDateMap, y1WindowMap, y2WindowMap)
    IN  [m |-> [m1 EXCEPT ![k] = person], k |-> k]

\* lines 176-287 for a row with rank and name
PersonnelRow ==
    /\ atRow("personnel")
    /\ ~assignThrows(upserted.m[upserted.k], rawData[i + 1])
    /\ personnelMap' = [upserted.m EXCEPT
                            ![upserted.k] = assignResults(@, rawData[i + 1])]
    /\ personnelCount' = IF mapHas(personnelMap, rowKey(rawData[i + 1]))
                         THEN personnelCount ELSE personnelCount + 1
    /\ processed' = processed + 1
    /\ i' = i + 1
    /\ UNCHANGED <<inputs, app, rowLocals, pc, errors, warnings, currentPlatoon,
                   skippedRows, result>>

\* lines 252-286 when the person lacks the block its category writes to:
\* the TypeError reaches the catch block
PersonnelRowThrows ==
    /\ atRow("personnel")
    /\ assignThrows(upserted.m[upserted.k], rawData[i + 1])
    /\ result' = Failure("TypeError")
    /\ pc' = "done"
    /\ UNCHANGED <<inputs, app, locals>>

\* lines 289-301
Finish ==
    /\ pc = "rows"
    /\ i >= Len(rawData)
    /\ \E months \in [{k \in 1..Len(personnelMap) :
                          needsOrdFix(personnelMap[k])
                          /\ personnelMap[k].category = K.NSF} -> MonthsToAdd] :
         LET personnel ==
                 [k \in 1..Len(personnelMap) |->
                     validateAndCleanPersonnelRecord(
                         personnelMap[k],
                         IF k \in DOMAIN months THEN months[k] ELSE 0)]
             allWarnings == warnings \o allValidationWarnings(personnelMap, 1)
         IN  /\ personnelMap' = personnel
             /\ warnings' = allWarnings
             /\ result' = [success |-> TRUE, data |-> personnel,
                           recordCount |-> Len(personnel),
                           errors |-> errors, warnings |-> allWarnings,
                           originalWorkbook |-> workbook]
    /\ pc' = "done"
    /\ UNCHANGED <<inputs, app, rowLocals, errors, currentPlatoon, processed,
                   personnelCount, skippedRows, i>>

Next ==
    \/ RejectFile
    \/ ParseInWorker
    \/ ReadWorkbook
    \/ MissingSheet
    \/ OpenSheet
    \/ ExtractVoc
    \/ NoVocSheet
    \/ FindDataStart
    \/ BlankRow
    \/ PlatoonHeaderRow
    \/ AmbiguousHeaderRow
    \/ MissingRankOrNameRow
    \/ PersonnelRow
    \/ PersonnelRowThrows
    \/ Finish

Spec == Init /\ [][Next]_vars

(* ---------------- validatePlatoon (848-912) ---------------- *)
validPlatoons ==
    <<U.Platoon1, U.Platoon2, U.Platoon3, U.Platoon4, U.COY_HQ, U.SupportPlatoon,
      U.Admin, U.Medical, U.Signals, U.Transport, K.Unassigned>>

validatePlatoon(platoon) ==
    IF platoon = <<>> \/ trim(platoon) = <<>> THEN K.Unassigned
    ELSE
    LET normalizedPlatoon == trim(platoon)
        lowerPlatoon == toLowerCase(normalizedPlatoon)
        has(w) == includes(lowerPlatoon, w)
        partial == {k \in 1..Len(validPlatoons) :
                       \/ includes(toLowerCase(validPlatoons[k]), lowerPlatoon)
                       \/ includes(lowerPlatoon, toLowerCase(validPlatoons[k]))}
    IN  IF \E k \in 1..Len(validPlatoons) : validPlatoons[k] = normalizedPlatoon
        THEN normalizedPlatoon
        ELSE IF has(L.coy) \/ has(L.hq) \/ has(L.headquarters) THEN U.COY_HQ
        ELSE IF has(L.platoon) \/ has(L.plt)
             THEN IF has(<<"1">>) \/ has(L.one) THEN U.Platoon1
                  ELSE IF has(<<"2">>) \/ has(L.two) THEN U.Platoon2
                  ELSE IF has(<<"3">>) \/ has(L.three) THEN U.Platoon3
                  ELSE IF has(<<"4">>) \/ has(L.four) THEN U.Platoon4
                  ELSE U.Platoon1
        ELSE IF has(L.support) THEN U.SupportPlatoon
        ELSE IF has(L.admin) THEN U.Admin
        ELSE IF has(L.medical) \/ has(L.med) THEN U.Medical
        ELSE IF has(L.signal) THEN U.Signals
        ELSE IF has(L.transport) \/ has(L.trans) THEN U.Transport
        ELSE IF partial # {} THEN validPlatoons[SetMin(partial)]
        ELSE K.Unassigned

\* the words the arguments of validatePlatoon are made of
PlatoonWords ==
    {<<"x", "y", "z">>, <<"P", "L", "T">>, <<"p", "l", "a", "t", "o", "o", "n">>, <<"3">>, <<"t", "w", "o">>, <<"F", "o", "u", "r">>, <<"7">>, <<"c", "o", "y">>,
     <<"H", "Q">>, <<"s", "u", "p", "p", "o", "r", "t">>, <<"A", "d", "m", "i", "n">>, <<"m", "e", "d">>, <<"s", "i", "g", "n", "a", "l">>, <<"t", "r", "a", "n", "s">>,
     <<"a">>, K.Unassigned, U.Platoon2, <<" ">>, <<>>}

\* a word, or two words with a space between them
PlatoonTexts ==
    PlatoonWords \cup {v \o <<" ">> \o w : v, w \in PlatoonWords}

\* a caller passes a text to validatePlatoon and gets its return value
CallValidatePlatoon ==
    /\ ~platoonCall.called
    /\ platoonCall' = [platoonCall EXCEPT !.returned = validatePlatoon(platoonCall.platoon),
                                           !.called = TRUE]
    /\ UNCHANGED <<inputs, locals, pc, result, personnelData, originalWorkbook,
                   reimported, desk, upload>>

InitPlatoon ==
    /\ file = Upload.ok
    /\ sheetNames = <<Txt.Sheet1>>
    /\ allInOneSheet = <<>>
    /\ vocSheet = <<>>
    /\ Entry
    /\ personnelData = <<>>
    /\ originalWorkbook = Null
    /\ reimported = "no"
    /\ FreshDesk
    /\ Processing
    /\ \E t \in PlatoonTexts :
           platoonCall = [platoon |-> t, returned |-> <<>>, called |-> FALSE]

NextPlatoon == CallValidatePlatoon

SpecPlatoon == InitPlatoon /\ [][NextPlatoon]_vars

(* ---------------- modified export (1174-1280) ---------------- *)
\* cell && cell.toString().toLowerCase().includes('name')
isNameHeader(cell) == cell # <<>> /\ includes(toLowerCase(cell), L.name)

\* data.findIndex(row => row.some(...)), -1 when no row has such a cell
headerRowIndex(data) ==
    LET hits == {k \in 0..(Len(data) - 1) :
                    \E c \in 1..Len(data[k + 1]) : isNameHeader(data[k + 1][c])}
    IN  IF hits = {} THEN -1 ELSE SetMin(hits)

\* columnMap of lines 1248-1258: the last header cell that includes the
\* keyword, -1 (undefined) when none does
columnOf(headers, keyword) ==
    LET hits == {k \in 0..(Len(headers) - 1) :
                    /\ headers[k + 1] # <<>>
                    /\ includes(trim(toLowerCase(headers[k + 1])), keyword)}
    IN  IF hits = {} THEN -1 ELSE SetMax(hits)

\* the text a Date cell is written as
dateText(d) ==
    IF d = Null THEN <<>>
    ELSE toDecimal(d[1]) \o <<"-">> \o padStart2(toDecimal(d[2]))
         \o <<"-">> \o padStart2(toDecimal(d[3]))

\* lines 1268-1273: the row written for a person; a later assignment to the
\* same column overwrites an earlier one
exportRow(person, headers) ==
    [k \in 1..Len(headers) |->
        IF k - 1 = columnOf(headers, L.medical)
        THEN (IF person.medicalStatus # <<>> THEN person.medicalStatus ELSE G.Fit)
        ELSE IF k - 1 = columnOf(headers, L.ord) THEN dateText(person.ordDate)
        ELSE IF k - 1 = columnOf(headers, L.pes) THEN person.pes
        ELSE IF k - 1 = columnOf(headers, L.platoon) THEN person.platoon
        ELSE IF k - 1 = columnOf(headers, L.name) THEN person.name
        ELSE <<>>]

\* the rows of the primary sheet after updateAllInOneViewSheet
updateAllInOneViewSheet(names, data, people) ==
    IF findSheet(names, K.allinoneview) = 0 \/ headerRowIndex(data) = -1 THEN data
    ELSE SubSeq(data, 1, headerRowIndex(data) + 1)
         \o [k \in 1..Len(people) |-> exportRow(people[k], data[headerRowIndex(data) + 1])]

\* originalFileName.replace(/\.[^/.]+$/, "")
fileBaseName(name) ==
    LET dots == {k \in 1..Len(name) : name[k] = "."}
    IN  IF dots = {} \/ SetMax(dots) = Len(name)
           \/ \E k \in (SetMax(dots) + 1)..Len(name) : name[k] = "/"
        THEN name
        ELSE SubSeq(name, 1, SetMax(dots) - 1)

\* `Modified_${fileBaseName}_${timestamp}.xlsx`
modifiedFileName(name) ==
    L.Modified \o fileBaseName(name) \o <<"_">> \o dateText(Today) \o K.xlsx

(* ---------------- the application around an import (app.js) ---------------- *)
\* SofunApp.saveData (863-874): the dataset, then the in-memory log over the
\* persisted one.  The records of this model are stored as they are: JSON
\* keeps each of their fields.
savedPersonnel(people) == people

\* SofunApp.processExcelFile after the await (lines 1008-1095): a successful
\* result becomes the loaded dataset, is saved and logged, and the delayed
\* reset is scheduled; a failure is logged; the button is enabled and the
\* file input cleared
AppLoad ==
    /\ pc = "done"
    /\ pc' = "loaded"
    /\ IF result.success
       THEN /\ personnelData' = result.data
            /\ originalWorkbook' = result.originalWorkbook
            /\ storedPersonnel' = savedPersonnel(result.data)
            /\ storedAuditLog' = saveAuditLog(auditLog)
            /\ auditLog' = appAddAuditEntry(auditLog,
                               AuditEntry(clock, "Imported Excel file", <<>>))
            /\ fileStatus' = "success"
            /\ resetTimers' = resetTimers + 1
       ELSE /\ auditLog' = appAddAuditEntry(auditLog,
                               AuditEntry(clock, "Excel import failed", <<>>))
            /\ fileStatus' = "error"
            /\ UNCHANGED <<personnelData, originalWorkbook, storedPersonnel,
                           storedAuditLog, resetTimers>>
    /\ clock' = clock + 1
    /\ processBtnDisabled' = FALSE
    /\ fileInput' = Null
    /\ UNCHANGED <<inputs, locals, result, reimported, platoonCall, modal,
                   selectedPersonnel>>

\* the chosen file is in the file input and Process was clicked (918-994)
Picked ==
    /\ fileInput' = [file |-> file', names |-> sheetNames', primary |-> allInOneSheet',
                     voc |-> vocSheet']
    /\ processBtnDisabled' = TRUE
    /\ fileStatus' = "processing"
    /\ UNCHANGED <<resetTimers, desk>>

\* a new call of processExcelFile starts with fresh locals
Reentered ==
    /\ pc' = "start"
    /\ workbook' = <<>>
    /\ rawData' = <<>>
    /\ ordDateMap' = <<>> /\ y1WindowMap' = <<>> /\ y2WindowMap' = <<>>
    /\ personnelMap' = <<>>
    /\ errors' = <<>> /\ warnings' = <<>>
    /\ currentPlatoon' = <<>>
    /\ processed' = 0 /\ personnelCount' = 0 /\ skippedRows' = 0
    /\ dataStartRow' = DefaultDataStartRow
    /\ i' = 0
    /\ result' = NoResult

\* the user imports the same file again
ReimportSame ==
    /\ pc = "loaded"
    /\ reimported = "no"
    /\ reimported' = "same"
    /\ Reentered
    /\ UNCHANGED <<inputs, personnelData, originalWorkbook, platoonCall>>
    /\ Picked

\* the VOC row without its window and ORD cells (columns F and G)
withoutDates(row) == SubSeq(row, 1, IF Len(row) < 5 THEN Len(row) ELSE 5)

\* the user imports a copy of the file whose VOC sheet has no date cells
ReimportWithoutDates ==
    /\ pc = "loaded"
    /\ reimported = "no"
    /\ findSheet(sheetNames, K.voc) # 0
    /\ vocSheet # <<>>
    /\ reimported' = "withoutDates"
    /\ vocSheet' = [k \in 1..Len(vocSheet) |-> withoutDates(vocSheet[k])]
    /\ Reentered
    /\ UNCHANGED <<file, sheetNames, allInOneSheet, personnelData, originalWorkbook,
                   platoonCall>>
    /\ Picked

\* downloadExcel (app.js 1128-1160) with the modified original chosen, then
\* the downloaded file is imported.  downloadModifiedExcel copies every sheet
\* of originalWorkbook and rewrites the primary sheet; the VOC sheets of this
\* model have no header row (no cell includes 'name'), so updateAssessmentSheet
\* returns at line 1318 and leaves the VOC sheet as it is.
ReimportExported ==
    /\ pc = "loaded"
    /\ reimported = "no"
    /\ Len(personnelData) # 0
    /\ originalWorkbook # Null
    /\ reimported' = "exported"
    /\ file' = [file EXCEPT !.name = modifiedFileName(file.name)]
    /\ sheetNames' = originalWorkbook
    /\ allInOneSheet' = updateAllInOneViewSheet(originalWorkbook, allInOneSheet,
                                                personnelData)
    /\ Reentered
    /\ UNCHANGED <<vocSheet, personnelData, originalWorkbook, platoonCall>>
    /\ Picked

\* the primary sheets of the re-import scenarios: data rows, with or without
\* the column-header row above them.  Every row the main loop reaches in them
\* is a personnel row, also after an export: the rows an export writes lie
\* below the default data start row.
ReimportRowSeqs ==
    JoinRowSeqs \cup {<<Rows.columnHeader>> \o r : r \in JoinRowSeqs}

InitReimport ==
    /\ file = Upload.ok
    /\ \/ /\ sheetNames = <<Txt.AllInOneView, Txt.VOC>>
          /\ allInOneSheet \in ReimportRowSeqs
          /\ vocSheet \in VocSeqs
       \/ /\ sheetNames = <<Txt.ALLINONE_padded>>
          /\ allInOneSheet \in ReimportRowSeqs
          /\ vocSheet = <<>>
    /\ Entry
    /\ Fresh

NextReimport ==
    \/ ParseInWorker
    \/ ReadWorkbook
    \/ OpenSheet
    \/ ExtractVoc
    \/ NoVocSheet
    \/ FindDataStart
    \/ PersonnelRow
    \/ PersonnelRowThrows
    \/ Finish
    \/ AppLoad
    \/ ReimportSame
    \/ ReimportWithoutDates
    \/ ReimportExported

SpecReimport == InitReimport /\ [][NextReimport]_vars

(* ---------------- the upload controls (app.js 918-1095, 1319-1351, 1432-1452) ---------------- *)
\* the files a user picks in the file input, with their workbooks
UploadChoices ==
    {[file |-> Upload.ok, names |-> <<Txt.AllInOneView>>, primary |-> <<Rows.tanNsf>>,
      voc |-> <<>>],
     [file |-> Upload.ok, names |-> <<Txt.AllInOneView>>,
      primary |-> <<Rows.leeNsf, Rows.tanNsf>>, voc |-> <<>>],
     [file |-> Upload.ok, names |-> <<Txt.AllInOneView>>, primary |-> <<Rows.tanRegular>>,
      voc |-> <<>>],
     [file |-> Upload.tooLarge, names |-> <<Txt.Sheet1>>, primary |-> <<>>, voc |-> <<>>]}

\* handleFileSelection: the change event of the file input, with a file or
\* with none (the chooser was cancelled)
HandleFileSelection ==
    /\ \E f \in UploadChoices \cup {Null} :
           /\ f # fileInput
           /\ fileInput' = f
           /\ processBtnDisabled' = (f = Null)
           /\ fileStatus' = IF f = Null THEN "" ELSE "ready"
    /\ UNCHANGED <<inputs, locals, pc, result, personnelData, originalWorkbook,
                   reimported, platoonCall, desk, resetTimers>>

\* a click on the enabled Process button with a file chosen: the global
\* processExcelFile (1432-1452) and SofunApp.processExcelFile up to its await
\* (972-1008).  A disabled button takes no click.
ClickProcess ==
    /\ pc \in {"idle", "loaded"}
    /\ ~processBtnDisabled
    /\ fileInput # Null
    /\ clock <= MaxClock
    /\ file' = fileInput.file
    /\ sheetNames' = fileInput.names
    /\ allInOneSheet' = fileInput.primary
    /\ vocSheet' = fileInput.voc
    /\ Reentered
    /\ processBtnDisabled' = TRUE
    /\ fileStatus' = "processing"
    /\ UNCHANGED <<personnelData, originalWorkbook, reimported, platoonCall, desk,
                   fileInput, resetTimers>>

\* the callback of setTimeout(..., 3000) after a successful import (1085-1095)
ResetTimerFires ==
    /\ resetTimers > 0
    /\ resetTimers' = resetTimers - 1
    /\ fileStatus' = ""
    /\ processBtnDisabled' = TRUE
    /\ UNCHANGED <<inputs, locals, pc, result, personnelData, originalWorkbook,
                   reimported, platoonCall, desk, fileInput>>

\* the application after init(): no import yet, no file chosen, the button
\* enabled by initializeFileUpload
InitUpload ==
    /\ file = Upload.ok
    /\ sheetNames = <<>>
    /\ allInOneSheet = <<>>
    /\ vocSheet = <<>>
    /\ pc = "idle"
    /\ FreshLocals
    /\ personnelData = <<>>
    /\ originalWorkbook = Null
    /\ reimported = "no"
    /\ platoonCall = NoCall
    /\ FreshDesk
    /\ fileInput = Null
    /\ processBtnDisabled = FALSE
    /\ fileStatus = ""
    /\ resetTimers = 0

NextUpload ==
    \/ HandleFileSelection
    \/ ClickProcess
    \/ RejectFile
    \/ ReadWorkbook
    \/ OpenSheet
    \/ NoVocSheet
    \/ FindDataStart
    \/ PersonnelRow
    \/ Finish
    \/ AppLoad
    \/ ResetTimerFires

SpecUpload == InitUpload /\ [][NextUpload]_vars

(* ---------------- the personnel manager (personnel-manager.js, app.js) ---------------- *)
\* validateDateInput(dateString) for the text of a form field, truthy or not
validateDateText(dateString) ==
    LET dmy == matchThree(dateString, "-", <<1..2, 1..2, {2}>>)
        date == IF dmy = <<>> THEN newDateFromText(dateString)
                ELSE <<(IF parseInt(dmy[3]) < 30 THEN 2000 ELSE 1900) + parseInt(dmy[3]),
                       parseInt(dmy[2]), parseInt(dmy[1])>>
    IN  /\ date # Null
        /\ ~dateBefore(Today, date)
        /\ ~dateBefore(date, minDate)

\* populateEditForm: the fields of the form after a record was loaded into
\* it; the fields of the other category keep the values they had
populateEditForm(person, old) ==
    LET orFit(v) == IF v = <<>> THEN G.Fit ELSE v
        basic == [old EXCEPT !.name = person.name, !.pes = person.pes,
                             !.platoon = person.platoon, !.ordDate = person.ordDate,
                             !.medicalStatus = orFit(person.medicalStatus)]
        block(b) == [f \in DOMAIN old[b] |-> slotOf(person, b, f)]
    IN  IF person.category = K.Regular
        THEN [basic EXCEPT !.workYear = block("workYear")]
        ELSE [basic EXCEPT !.y1 = block("y1"), !.y2 = block("y2")]

\* extractFormData with the form's phase fields present (editY1Ippt exists)
extractFormData(f) ==
    [name |-> trim(f.name), pes |-> f.pes, platoon |-> f.platoon, ordDate |-> f.ordDate,
     medicalStatus |-> IF f.medicalStatus = <<>> THEN G.Fit ELSE f.medicalStatus,
     y1 |-> f.y1, y2 |-> f.y2]

validatePersonnelData(data) ==
    /\ data.name # <<>>
    /\ data.platoon = <<>> \/ isValidPlatoon(data.platoon)
    /\ \A value \in {data.ordDate, data.y1.ipptDate, data.y1.vocDate, data.y1.atpDate,
                      data.y2.ipptDate, data.y2.vocDate, data.y2.rangeDate} :
           value = <<>> \/ validateDateText(value)

\* updatePersonnelRecord at time t: the record after the statements that ran,
\* and whether Object.assign threw on a missing phase block
updatePersonnelRecord(person, data, t) ==
    LET basic == [person EXCEPT !.name = sanitizePersonnelName(data.name),
                                !.platoon = data.platoon, !.unit = data.platoon,
                                !.ordDate = data.ordDate,
                                !.medicalStatus = data.medicalStatus]
    IN  IF "y1" \notin DOMAIN person THEN [person |-> basic, threw |-> TRUE]
        ELSE LET withY1 == [basic EXCEPT !.y1 = data.y1 @@ person.y1]
             IN  IF "y2" \notin DOMAIN person THEN [person |-> withY1, threw |-> TRUE]
                 ELSE [person |-> [withY1 EXCEPT !.y2 = data.y2 @@ person.y2,
                                                 !.lastUpdated = t],
                       threw |-> FALSE]

\* personnelData.findIndex(p => p.name === name), 0 when none
findIndexByName(people, name) ==
    LET hits == {k \in 1..Len(people) : people[k].name = name}
    IN  IF hits = {} THEN 0 ELSE SetMin(hits)

\* people.splice(idx, 1)
spliced(people, idx) ==
    SubSeq(people, 1, idx - 1) \o SubSeq(people, idx + 1, Len(people))

\* SofunApp.saveData with the storage accepting the write: the personnel, then
\* the in-memory log over the persisted one
saveData(people) ==
    /\ storedPersonnel' = savedPersonnel(people)
    /\ storedAuditLog' = saveAuditLog(auditLog)

\* openEditModal(index) on the listed record k (no filter hides a record)
OpenEditModal ==
    /\ \E k \in 1..Len(personnelData) :
           /\ currentEditIndex' = k
           /\ form' = populateEditForm(personnelData[k], form)
           /\ opened' = personnelData[k].name
    /\ UNCHANGED <<inputs, locals, pc, result, personnelData, originalWorkbook,
                   reimported, platoonCall, logs, storedPersonnel, selectedPersonnel,
                   upload>>

\* what the user types into the open form
FormEdits ==
    {[field |-> "name", value |-> <<>>], [field |-> "name", value |-> Txt.LEE],
     [field |-> "platoon", value |-> <<>>],
     [field |-> "ordDate", value |-> <<"T", "B", "C">>]}

TypeInForm ==
    /\ currentEditIndex # -1
    /\ \E e \in FormEdits : form' = [form EXCEPT ![e.field] = e.value]
    /\ UNCHANGED <<inputs, locals, pc, result, personnelData, originalWorkbook,
                   reimported, platoonCall, logs, storedPersonnel, currentEditIndex,
                   opened, selectedPersonnel, upload>>

\* closeEditModal (Cancel)
CloseEditModal ==
    /\ currentEditIndex # -1
    /\ currentEditIndex' = -1
    /\ opened' = Null
    /\ UNCHANGED <<inputs, locals, pc, result, personnelData, originalWorkbook,
                   reimported, platoonCall, logs, storedPersonnel, form,
                   selectedPersonnel, upload>>

\* saveEdit: every way through the handler
SaveEdit ==
    /\ currentEditIndex # -1
    /\ clock <= MaxClock
    /\ UNCHANGED <<inputs, locals, pc, result, originalWorkbook, reimported,
                   platoonCall, auditLog, form, selectedPersonnel, upload>>
    /\ IF currentEditIndex > Len(personnelData)
       THEN UNCHANGED <<personnelData, storedPersonnel, storedAuditLog, clock,
                        currentEditIndex, opened>>
       ELSE LET person == personnelData[currentEditIndex]
                updatedData == extractFormData(form)
                done == updatePersonnelRecord(person, updatedData, clock)
                people == [personnelData EXCEPT ![currentEditIndex] = done.person]
            IN  IF ~validatePersonnelData(updatedData)
                THEN UNCHANGED <<personnelData, storedPersonnel, storedAuditLog, clock,
                                 currentEditIndex, opened>>
                ELSE IF done.threw
                THEN /\ personnelData' = people
                     /\ opened' = IF person.name = opened THEN done.person.name
                                  ELSE opened
                     /\ UNCHANGED <<storedPersonnel, storedAuditLog, clock,
                                     currentEditIndex>>
                ELSE /\ personnelData' = people
                     /\ storedPersonnel' = savedPersonnel(people)
                     /\ storedAuditLog' =
                            storageAddAuditEntry(saveAuditLog(auditLog),
                                AuditEntry(clock, "Updated record", done.person.name))
                     /\ clock' = clock + 1
                     /\ currentEditIndex' = -1
                     /\ opened' = Null

\* deletePersonnel (app.js 1584-1604), the confirm answered with OK
DeletePersonnel ==
    /\ currentEditIndex # -1
    /\ clock <= MaxClock
    /\ LET name == trim(form.name)
           idx == findIndexByName(personnelData, name)
       IN  /\ name # <<>>
           /\ idx # 0
           /\ personnelData' = spliced(personnelData, idx)
           /\ saveData(personnelData')
           /\ auditLog' = appAddAuditEntry(auditLog,
                              AuditEntry(clock, "Deleted personnel", name))
    /\ clock' = clock + 1
    /\ currentEditIndex' = -1
    /\ opened' = Null
    /\ UNCHANGED <<inputs, locals, pc, result, originalWorkbook, reimported,
                   platoonCall, form, selectedPersonnel, upload>>

\* toggleSelection(name) for the checkbox of a listed record; the Set keeps
\* the order of insertion
ToggleSelection ==
    /\ \E k \in 1..Len(personnelData) :
           LET name == personnelData[k].name
           IN  selectedPersonnel' =
                   IF \E j \in 1..Len(selectedPersonnel) : selectedPersonnel[j] = name
                   THEN SelectSeq(selectedPersonnel, LAMBDA n : n # name)
                   ELSE Append(selectedPersonnel, name)
    /\ UNCHANGED <<inputs, locals, pc, result, personnelData, originalWorkbook,
                   reimported, platoonCall, logs, storedPersonnel, modal, upload>>

\* the forEach of a bulk update at time t: the fields of changes written to
\* the first record of each selected name, one storage.addAuditEntry per
\* record found
bulkLoop(people, persisted, names, t, action, changes) ==
    LET RECURSIVE loop(_, _, _)
        loop(ps, log, j) ==
            IF j > Len(names) THEN [people |-> ps, log |-> log]
            ELSE LET idx == findIndexByName(ps, names[j])
                 IN  IF idx = 0 THEN loop(ps, log, j + 1)
                     ELSE loop([ps EXCEPT ![idx] = changes @@ ps[idx]],
                               storageAddAuditEntry(log, AuditEntry(t, action, names[j])),
                               j + 1)
    IN  loop(people, persisted, 1)

\* the platoons chosen at the prompt of bulkUpdatePlatoon
PromptPlatoons == {U.COY_HQ, U.Platoon3}

\* the statuses chosen at the prompt of bulkUpdateStatus
PromptStatuses == {G.LightDuty, G.MedicalBoard}

\* bulkUpdatePlatoon: the loop, saveData, clearSelection
BulkUpdatePlatoon ==
    /\ selectedPersonnel # <<>>
    /\ clock <= MaxClock
    /\ \E newPlatoon \in PromptPlatoons :
           personnelData' =
               bulkLoop(personnelData, storedAuditLog, selectedPersonnel, clock,
                        "Bulk update: Changed platoon",
                        [platoon |-> newPlatoon, unit |-> newPlatoon]).people
    /\ saveData(personnelData')
    /\ selectedPersonnel' = <<>>
    /\ clock' = clock + 1
    /\ UNCHANGED <<inputs, locals, pc, result, originalWorkbook, reimported,
                   platoonCall, auditLog, modal, upload>>

\* bulkUpdateStatus: the loop, saveData, clearSelection
BulkUpdateStatus ==
    /\ selectedPersonnel # <<>>
    /\ clock <= MaxClock
    /\ \E statusText \in PromptStatuses :
           personnelData' =
               bulkLoop(personnelData, storedAuditLog, selectedPersonnel, clock,
                        "Bulk update: Changed medical status",
                        [medicalStatus |-> statusText]).people
    /\ saveData(personnelData')
    /\ selectedPersonnel' = <<>>
    /\ clock' = clock + 1
    /\ UNCHANGED <<inputs, locals, pc, result, originalWorkbook, reimported,
                   platoonCall, auditLog, modal, upload>>

\* saveData from the auto-save interval, Ctrl+S or beforeunload
SaveData ==
    /\ saveData(personnelData)
    /\ UNCHANGED <<inputs, locals, pc, result, personnelData, originalWorkbook,
                   reimported, platoonCall, auditLog, clock, modal, selectedPersonnel,
                   upload>>

\* another tab saved the stored personnel, as they were or with one record
\* deleted; the storage event makes this tab run loadData
ExternalUpdate ==
    /\ storedPersonnel # Null
    /\ \E k \in 0..Len(storedPersonnel) :
           storedPersonnel' = IF k = 0 THEN storedPersonnel
                              ELSE spliced(storedPersonnel, k)
    /\ personnelData' = storedPersonnel'
    /\ auditLog' = storedAuditLog
    /\ UNCHANGED <<inputs, locals, pc, result, originalWorkbook, reimported,
                   platoonCall, storedAuditLog, clock, modal, selectedPersonnel,
                   upload>>

\* SofunDataProcessor.fixExistingPlatoonNames with pick[k] the platoon
\* getRandomElement returns for record k
fixedPlatoons(people, pick) ==
    [k \in 1..Len(people) |->
        IF people[k].platoon = <<>> \/ ~isValidPlatoon(people[k].platoon)
        THEN LET platoon == IF people[k].category = K.NSF THEN pick[k] ELSE U.COY_HQ
             IN  [people[k] EXCEPT !.platoon = platoon, !.unit = platoon]
        ELSE people[k]]

\* SofunApp.fixExistingPlatoonNames when some record is fixed
FixExistingPlatoonNames ==
    /\ clock <= MaxClock
    /\ \E pick \in [1..Len(personnelData) -> {U.Platoon1, U.Platoon2, U.Platoon3}] :
           /\ fixedPlatoons(personnelData, pick) # personnelData
           /\ personnelData' = fixedPlatoons(personnelData, pick)
    /\ saveData(personnelData')
    /\ auditLog' = appAddAuditEntry(auditLog,
                       AuditEntry(clock, "Fixed invalid platoon assignments", <<>>))
    /\ clock' = clock + 1
    /\ UNCHANGED <<inputs, locals, pc, result, originalWorkbook, reimported,
                   platoonCall, modal, selectedPersonnel, upload>>

\* the workbooks imported before the records are managed
ManagerBooks == {c \in UploadChoices : c.file = Upload.ok}

\* a first run of the application with the import of a workbook started
InitManager ==
    /\ \E c \in ManagerBooks :
           /\ file = c.file
           /\ sheetNames = c.names
           /\ allInOneSheet = c.primary
           /\ vocSheet = c.voc
    /\ Entry
    /\ Fresh

NextManager ==
    \/ ReadWorkbook
    \/ OpenSheet
    \/ NoVocSheet
    \/ FindDataStart
    \/ PersonnelRow
    \/ Finish
    \/ AppLoad
    \/ OpenEditModal
    \/ TypeInForm
    \/ CloseEditModal
    \/ SaveEdit
    \/ DeletePersonnel
    \/ ToggleSelection
    \/ BulkUpdatePlatoon
    \/ BulkUpdateStatus
    \/ SaveData
    \/ ExternalUpdate
    \/ FixExistingPlatoonNames

SpecManager == InitManager /\ [][NextManager]_vars

\* the lengths of the persisted log a later run of the application finds
PriorEntries == {maxAuditEntries - 1, maxAuditEntries}

\* the log of earlier sessions, newest first: n imports, made before time 0
priorLog(n) == [k \in 1..n |-> AuditEntry(0 - k, "Imported Excel file", <<>>)]

\* a later run of the application: the records of the earlier sessions were
\* all deleted, loadData read their log, init() persisted its entry, and the
\* import of the workbook of one NSF record was started
InitAudit ==
    /\ \E c \in {b \in ManagerBooks : b.primary = <<Rows.tanNsf>>} :
           /\ file = c.file
           /\ sheetNames = c.names
           /\ allInOneSheet = c.primary
           /\ vocSheet = c.voc
    /\ Entry
    /\ personnelData = <<>>
    /\ originalWorkbook = Null
    /\ reimported = "no"
    /\ platoonCall = NoCall
    /\ \E n \in PriorEntries :
           /\ auditLog = priorLog(n)
           /\ storedAuditLog =
                  storageAddAuditEntry(priorLog(n), AuditEntry(0, Initialized, <<>>))
    /\ storedPersonnel = <<>>
    /\ clock = 1
    /\ currentEditIndex = -1
    /\ form = EmptyForm
    /\ opened = Null
    /\ selectedPersonnel = <<>>
    /\ Processing

SpecAudit == InitAudit /\ [][NextManager]_vars

(* ---------------- vocabulary of the properties ---------------- *)
returned == pc = "done"
succeeded == pc = "done" /\ result.success

\* some sheet is named 'All in one view' (trimmed, any letter case)
primaryPresent ==
    \E k \in 1..Len(sheetNames) : toLowerCase(trim(sheetNames[k])) = K.allinoneview

\* the 0-based indexes of the sheet rows the main loop treats as personnel rows
personnelRows ==
    {r \in 0..(Len(allInOneSheet) - 1) :
        r >= findDataStartRow(allInOneSheet) /\ rowKind(allInOneSheet[r + 1]) = "personnel"}

\* those of them whose name cell normalizes to key
rowsOf(key) ==
    {r \in personnelRows :
        sanitizePersonnelName(trim(Cell(allInOneSheet[r + 1], 2))) = key}

ResultSlots == {"ippt", "voc", "atp", "range", "cs"}
Blocks == {"y1", "y2", "workYear"}
Y1Shape == {"ippt", "ipptDate", "voc", "vocDate", "atp", "atpDate"}
Y2Shape == {"ippt", "ipptDate", "voc", "vocDate", "range", "rangeDate"}
WorkYearShape == {"ippt", "ipptDate", "voc", "vocDate", "atp", "atpDate", "cs", "csDate"}

\* C1: every returned NSF record has exactly the y1 and y2 blocks of three
\* result slots and no workYear block, and every returned Regular record has
\* exactly a workYear block of four result slots and no y1 / y2 block.
C1_CategoryShapeMatch ==
    returned =>
        \A k \in 1..Len(result.data) :
            LET p == result.data[k]
            IN  /\ p.category \in {K.NSF, K.Regular}
                /\ p.category = K.NSF =>
                       /\ Blocks \cap DOMAIN p = {"y1", "y2"}
                       /\ DOMAIN p.y1 = Y1Shape
                       /\ DOMAIN p.y2 = Y2Shape
                /\ p.category = K.Regular =>
                       /\ Blocks \cap DOMAIN p = {"workYear"}
                       /\ DOMAIN p.workYear = WorkYearShape

\* C2: whenever the primary sheet is present, processExcelFile returns a
\* successful result whatever the rows contain.
C2_RowProblemsNeverFail ==
    (returned /\ primaryPresent) => result.success

\* C3: the unit and the platoon of every returned record are members of
\* VALID_PLATOONS.
C3_UnitInVocabulary ==
    returned =>
        \A k \in 1..Len(result.data) :
            /\ result.data[k].unit \in VALID_PLATOONS
            /\ result.data[k].platoon \in VALID_PLATOONS

\* the unit of the nearest section-header row before row r of the sheet, '' if none
RECURSIVE headerBefore(_)
headerBefore(r) ==
    IF r = 0 THEN <<>>
    ELSE IF rowKind(allInOneSheet[r]) = "header" THEN platoonHeaderOf(allInOneSheet[r])
    ELSE headerBefore(r - 1)

\* C4: a data row gets the unit of the nearest preceding section-header row;
\* the sheet ["PLATOON 2"], [SGT, TAN WEI, A1, NSF, Gold, Pass, Pass] yields one
\* NSF record TAN WEI of unit 'Platoon 2' with phase one Gold/Pass/Pass, phase
\* two empty and medicalStatus 'Fit'.
C4_SectionHeaderScopesRows ==
    succeeded =>
        /\ \A k \in 1..Len(result.data) :
               LET rows == rowsOf(result.data[k].name)
               IN  (Cardinality(rows) = 1 /\ headerBefore(CHOOSE r \in rows : TRUE) # <<>>)
                       => result.data[k].unit = headerBefore(CHOOSE r \in rows : TRUE)
        /\ allInOneSheet = <<Rows.hdrPlatoon2, Rows.tanNsf>> =>
               /\ Len(result.data) = 1
               /\ result.data[1].name = Txt.TAN_WEI
               /\ result.data[1].category = K.NSF
               /\ result.data[1].unit = U.Platoon2
               /\ result.data[1].y1.ippt = G.Gold
               /\ result.data[1].y1.voc = G.Pass
               /\ result.data[1].y1.atp = G.Pass
               /\ result.data[1].y2.ippt = <<>>
               /\ result.data[1].y2.voc = <<>>
               /\ result.data[1].y2.range = <<>>
               /\ result.data[1].medicalStatus = G.Fit

uniqueNames(m) ==
    \A j, k \in 1..Len(m) :
        j # k => sanitizePersonnelName(m[j].name) # sanitizePersonnelName(m[k].name)

\* C5: the returned list holds at most one record per normalized name, and
\* all personnel rows whose names normalize to one key are merged into one record.
C5_OneRecordPerName ==
    /\ uniqueNames(personnelMap)
    /\ returned => uniqueNames(result.data)
    /\ succeeded =>
           \A r \in personnelRows :
               Cardinality({k \in 1..Len(result.data) :
                   sanitizePersonnelName(result.data[k].name)
                       = sanitizePersonnelName(trim(Cell(allInOneSheet[r + 1], 2)))}) = 1

\* C5 witness: two rows spell one name differently and end up in one record
C5_Witness ==
    /\ succeeded
    /\ Len(result.data) = 1
    /\ \E r1, r2 \in personnelRows :
           /\ Cell(allInOneSheet[r1 + 1], 2) # Cell(allInOneSheet[r2 + 1], 2)
           /\ rowsOf(result.data[1].name) = {r1, r2}

AllSlots == RegularSlots \o NsfSlots

storableText(v) == v # <<>> /\ toUpperCase(v) \notin {K.MISSING, K.NA}

\* the last storable text of column col in the rows of key, '' if none
lastValueOf(key, col) ==
    LET rows == {r \in rowsOf(key) : storableText(trim(Cell(allInOneSheet[r + 1], col)))}
    IN  IF rows = {} THEN <<>>
        ELSE trim(Cell(allInOneSheet[SetMax(rows) + 1], col))

\* C6: every assessment slot of a merged record holds the last non-empty,
\* non-sentinel value its column had in the rows of that name, or '' if none.
C6_LastValueWinsBlanksNeverErase ==
    succeeded =>
        \A k \in 1..Len(result.data) :
            \A s \in 1..Len(AllSlots) :
                LET p == result.data[k]
                IN  AllSlots[s].block \in DOMAIN p =>
                        p[AllSlots[s].block][AllSlots[s].slot]
                            = lastValueOf(p.name, AllSlots[s].col)

\* the result slots a record has
slotValues(p) ==
    {p[b][f] : <<b, f>> \in {bf \in Blocks \X ResultSlots :
                                bf[1] \in DOMAIN p /\ bf[2] \in DOMAIN p[bf[1]]}}

\* C7: no returned slot holds NA or MISSING in any letter case; a lone row
\* marked REG whose work-year fitness is MISSING gives a Regular record whose
\* work-year fitness is ''.
C7_SentinelsNeverStored ==
    returned =>
        \A k \in 1..Len(result.data) :
            LET p == result.data[k]
                rows == rowsOf(p.name)
                row == allInOneSheet[(CHOOSE r \in rows : TRUE) + 1]
            IN  /\ \A v \in slotValues(p) : toUpperCase(v) \notin {K.NA, K.MISSING}
                /\ (/\ Cardinality(rows) = 1
                    /\ includes(toUpperCase(trim(Cell(row, 4))), K.REG)
                    /\ toUpperCase(trim(Cell(row, 11))) = K.MISSING)
                   => (/\ p.category = K.Regular
                       /\ "workYear" \in DOMAIN p
                       /\ p.workYear.ippt = <<>>)

\* C7 witness: the lone REG / MISSING row was ingested
C7_Witness ==
    /\ succeeded
    /\ \E k \in 1..Len(result.data) :
           /\ Cardinality(rowsOf(result.data[k].name)) = 1
           /\ \E r \in rowsOf(result.data[k].name) : allInOneSheet[r + 1] = Rows.tanRegMissing
           /\ result.data[k].category = K.Regular

gradesOf(block, slot) ==
    IF slot = "ippt" THEN IPPT_GRADES
    ELSE IF slot = "voc" THEN VOC_GRADES
    ELSE SKILL_GRADES

\* C8: every returned result slot is '' or a member of its grade vocabulary.
C8_GradesInVocabulary ==
    returned =>
        \A k \in 1..Len(result.data) :
            \A b \in Blocks \cap DOMAIN result.data[k] :
                \A f \in ResultSlots \cap DOMAIN result.data[k][b] :
                    result.data[k][b][f] \in gradesOf(b, f) \cup {<<>>}

\* C9: a primary sheet whose rows are all titles or blanks gives an empty
\* record list together with exactly one error.
C9_NoDataRowsIsOneError ==
    (/\ returned
     /\ primaryPresent
     /\ allInOneSheet # <<>>
     /\ \A r \in 1..Len(allInOneSheet) : rowKind(allInOneSheet[r]) \in {"blank", "noise"})
    => (result.data = <<>> /\ Len(result.errors) = 1)

\* C10: without a sheet named 'All in one view' the call returns a failure
\* with no record and exactly one error, whatever other sheets there are.
C10_MissingSheetIsOneError ==
    (returned /\ ~primaryPresent) =>
        /\ ~result.success
        /\ result.data = <<>>
        /\ result.recordCount = 0
        /\ Len(result.errors) = 1

\* C10 witness: a readable workbook that has a VOC sheet with rows and no primary sheet
C10_Witness ==
    /\ returned
    /\ file = Upload.ok
    /\ ~primaryPresent
    /\ \E k \in 1..Len(sheetNames) : toLowerCase(trim(sheetNames[k])) = K.voc
    /\ vocSheet # <<>>

\* a record without some of its fields
exceptFields(p, fields) == [f \in DOMAIN p \ fields |-> p[f]]

\* the fields the VOC join writes
DateFields == {"ordDate", "y1WindowEndDate", "y2WindowEndDate"}

\* the date fields of a record, an absent one being null
datesOf(p) == [f \in DateFields |-> FieldOr(p, f)]

\* a second import has returned after a first one was loaded
reimportReturned(which) == reimported = which /\ pc = "done"

\* C11: the VOC join creates no record and changes only ordDate,
\* y1WindowEndDate and y2WindowEndDate of NSF records: compared with the
\* import of the same primary sheet without VOC dates, the records are the
\* same names in the same order, every name comes from a primary row, every
\* other field is equal (lastUpdated, the time of the run, aside) and a
\* Regular record is equal in the date fields too.
C11_JoinOnlySetsDates ==
    (reimportReturned("withoutDates") /\ result.success) =>
        /\ Len(personnelData) = Len(result.data)
        /\ \A k \in 1..Len(result.data) :
               LET joined == personnelData[k]
                   plain == result.data[k]
               IN  /\ rowsOf(joined.name) # {}
                   /\ exceptFields(joined, DateFields \cup {"lastUpdated"})
                          = exceptFields(plain, DateFields \cup {"lastUpdated"})
                   /\ joined.category = K.Regular => datesOf(joined) = datesOf(plain)

\* the returned result carries a warning of this kind for this name
warned(kind, name) ==
    \E w \in 1..Len(result.warnings) :
        result.warnings[w].kind = kind /\ result.warnings[w].name = name

\* C12: an ORD date of the VOC sheet that is unparseable or earlier than
\* 2020-01-01 is null in the returned record of that name, and a warning
\* about it is recorded.
C12_InvalidOrdDateIsNull ==
    succeeded =>
        \A k \in 1..Len(result.data) :
            LET p == result.data[k]
            IN  (/\ p.category = K.NSF
                 /\ MapHas(ordDateMap, p.name)
                 /\ ~validateDateInput(ordDateMap[p.name], TRUE))
                => (p.ordDate = Null /\ warned("invalid ORD date", p.name))

\* the content of a record list, whatever its order: every field but the
\* time of the run
contentOf(people) ==
    {exceptFields(people[k], {"lastUpdated"}) : k \in 1..Len(people)}

\* C13: importing the same workbook a second time gives the records the
\* first import gave: same number, same names, units, categories, dates and
\* result slots.
C13_SameWorkbookSameRecords ==
    (reimportReturned("same") /\ originalWorkbook # Null) =>
        /\ result.success
        /\ Len(result.data) = Len(personnelData)
        /\ contentOf(result.data) = contentOf(personnelData)

\* the fields of a record that hold a text or a date
PlainFields ==
    {"name", "category", "platoon", "unit", "rank", "pes", "medicalStatus",
     "ordDate", "y1WindowEndDate", "y2WindowEndDate"}

\* the populated fields and slots of a record, as paths
populated(p) ==
    {<<f>> : f \in {g \in PlainFields \cap DOMAIN p : p[g] # <<>>}}
    \cup {bf \in Blocks \X ResultSlots :
             /\ bf[1] \in DOMAIN p
             /\ bf[2] \in DOMAIN p[bf[1]]
             /\ p[bf[1]][bf[2]] # <<>>}

\* the value at a path, '' when the record lacks it
valueAt(p, path) ==
    IF Len(path) = 1 THEN FieldOr(p, path[1])
    ELSE IF path[1] \in DOMAIN p /\ path[2] \in DOMAIN p[path[1]]
         THEN p[path[1]][path[2]]
    ELSE <<>>

\* C14: when the application loads the import of a workbook whose VOC sheet
\* lacks the dates, every field that was populated in the loaded dataset
\* still has its value in the loaded dataset.
C14_ReimportKeepsPopulatedFields ==
    [][(pc = "done" /\ pc' = "loaded" /\ reimported = "withoutDates") =>
          \A k \in 1..Len(personnelData) :
              \A path \in populated(personnelData[k]) :
                  \E j \in 1..Len(personnelData') :
                      /\ personnelData'[j].name = personnelData[k].name
                      /\ valueAt(personnelData'[j], path)
                             = valueAt(personnelData[k], path)]_vars

\* what a round trip through the export has to keep of a record
roundTripOf(p) ==
    [name |-> p.name, unit |-> p.unit, category |-> p.category,
     slots |-> [bf \in {x \in Blocks \X ResultSlots :
                           x[1] \in DOMAIN p /\ x[2] \in DOMAIN p[x[1]]}
                   |-> p[bf[1]][bf[2]]]]

\* C15: importing the file the modified export wrote gives records with the
\* names, units, categories and result slots of the exported dataset.
C15_ExportRoundTrip ==
    reimportReturned("exported") =>
        /\ result.success
        /\ {roundTripOf(result.data[k]) : k \in 1..Len(result.data)}
               = {roundTripOf(personnelData[k]) : k \in 1..Len(personnelData)}

\* the calendar date n days after 1899-12-30 (Date.UTC(1899, 11, 30)), n >= 0
daysAfterEpoch(n) ==
    LET z == n - 25569 + 719468
        era == z \div 146097
        doe == z - era * 146097
        yoe == (doe - doe \div 1460 + doe \div 36524 - doe \div 146096) \div 365
        doy == doe - (365 * yoe + yoe \div 4 - yoe \div 100)
        mp == (5 * doy + 2) \div 153
        d == doy - (153 * mp + 2) \div 5 + 1
        m == IF mp < 10 THEN mp + 3 ELSE mp - 9
    IN  <<yoe + era * 400 + (IF m <= 2 THEN 1 ELSE 0), m, d>>

\* the date a numeric cell stands for: DDMMYY for six digits, otherwise the
\* number of days after 1899-12-30
numericDate(n) ==
    IF n >= 100000 /\ n <= 999999 THEN parseDate(StrCell(toDecimal(n)))
    ELSE daysAfterEpoch(n)

\* the 0-based VOC rows that set the ORD date of key
ordRowsOf(key) ==
    {r \in vocDataStartRow(vocSheet)..(Len(vocSheet) - 1) :
        /\ trim(cellText(VocCell(vocSheet[r + 1], 2))) # <<>>
        /\ sanitizePersonnelName(trim(cellText(VocCell(vocSheet[r + 1], 2)))) = key
        /\ truthy(VocCell(vocSheet[r + 1], 6))}

\* C16: parseDate turns a numeric ORD cell into a date: 141125 into
\* 2025-11-14, the date of the text '14-11-25', and any other integer n
\* into the date n days after 1899-12-30.
C16_NumericDates ==
    /\ numericDate(141125) = <<2025, 11, 14>>
    /\ numericDate(141125) = parseDate(StrCell(Txt.d141125))
    /\ numericDate(1) = <<1899, 12, 31>>
    /\ numericDate(45658) = <<2025, 1, 1>>
    /\ \A key \in DOMAIN ordDateMap :
           LET c == VocCell(vocSheet[SetMax(ordRowsOf(key)) + 1], 6)
           IN  c.t = "number" => ordDateMap[key] = numericDate(c.n)

\* C17: validatePlatoon returns a member of VALID_PLATOONS for every text,
\* never 'Unassigned'; for 'xyz', which matches nothing, it returns the
\* default of the category, 'Platoon 1' or 'COY HQ'.
C17_ValidatePlatoonInVocabulary ==
    platoonCall.called =>
        /\ platoonCall.returned \in VALID_PLATOONS
        /\ platoonCall.platoon = <<"x", "y", "z">>
               => platoonCall.returned \in {U.Platoon1, U.COY_HQ}

\* the 0-based rows of the primary sheet the main loop reaches that are
\* neither blank nor a section header
candidateRows ==
    {r \in findDataStartRow(allInOneSheet)..(Len(allInOneSheet) - 1) :
        /\ ~isBlankRow(allInOneSheet[r + 1])
        /\ platoonHeaderOf(allInOneSheet[r + 1]) = <<>>}

\* rank non-empty, name longer than 2, neither containing RANK / NAME
isDataRow(row) == looksLikePerson(CellTrim(row, 1), CellTrim(row, 2))

\* C18: every returned record comes from a row with a non-empty rank, a name
\* longer than two characters and neither RANK nor NAME in them; every
\* other non-blank, non-header row of the main loop has a warning and its
\* name no record.
C18_OnlyDataRowsMakeRecords ==
    succeeded =>
        /\ \A k \in 1..Len(result.data) :
               \E r \in candidateRows :
                   /\ isDataRow(allInOneSheet[r + 1])
                   /\ rowKey(allInOneSheet[r + 1]) = result.data[k].name
        /\ \A r \in candidateRows :
               ~isDataRow(allInOneSheet[r + 1]) =>
                   \E w \in 1..Len(result.warnings) : result.warnings[w].row = r + 1

\* the first cell has a unit keyword and is neither PLATOON<digit> nor a
\* support-unit name
unitKeywordNoHeader(row) ==
    LET first == toUpperCase(trim(Cell(row, 0)))
    IN  /\ includes(first, K.PLATOON) \/ includes(first, K.COY) \/ includes(first, K.HQ)
        /\ ~matchesPlatoonDigit(trim(Cell(row, 0)))
        /\ \A k \in 1..Len(supportUnits) :
               removeSpaces(first) # toUpperCase(removeSpaces(supportUnits[k]))

C20_WorkerAndFallbackAgree ==
    succeeded =>
        /\ rawData = allInOneSheet
        /\ result.originalWorkbook = sheetNames
\* the result slots of a record that hold a grade
recorded(p) ==
    {bf \in Blocks \X ResultSlots :
        /\ bf[1] \in DOMAIN p
        /\ bf[2] \in DOMAIN p[bf[1]]
        /\ p[bf[1]][bf[2]] # <<>>}

\* the result slots a record has
assessments(p) ==
    {bf \in Blocks \X ResultSlots : bf[1] \in DOMAIN p /\ bf[2] \in DOMAIN p[bf[1]]}

\* C21: a returned Regular record has status 'Y2 Not started' when none of its
\* assessments is recorded, 'Y2 In progress' when some are, 'Y2 Completed' when
\* all are, and never 'Y1 In progress'.
C21_RegularStatusFollowsAssessments ==
    succeeded =>
        \A k \in 1..Len(result.data) :
            LET p == result.data[k]
            IN  p.category = K.Regular =>
                    /\ getPersonStatus(p) # "Y1 In progress"
                    /\ recorded(p) = {} => getPersonStatus(p) = "Y2 Not started"
                    /\ (recorded(p) # {} /\ recorded(p) # assessments(p))
                           => getPersonStatus(p) = "Y2 In progress"
                    /\ (recorded(p) # {} /\ recorded(p) = assessments(p))
                           => getPersonStatus(p) = "Y2 Completed"

\* the place of a status in the progression
statusRank(text) ==
    CASE text = "Y1 In progress" -> 0
      [] text = "Y2 Not started" -> 1
      [] text = "Y2 In progress" -> 2
      [] text = "Y2 Completed" -> 3

\* C30: while rows are merged, the status of a record that is NSF before and
\* after a merge never moves backwards in the progression.
C30_NsfStatusNeverMovesBack ==
    [][(pc = "rows" /\ pc' = "rows") =>
          \A k \in 1..Len(personnelMap) :
              (/\ k <= Len(personnelMap')
               /\ personnelMap[k].category = K.NSF
               /\ personnelMap'[k].category = K.NSF)
              => statusRank(getPersonStatus(personnelMap'[k]))
                     >= statusRank(getPersonStatus(personnelMap[k]))]_vars

\* no call of SofunApp.processExcelFile is between its start and its end
noImportInProgress == pc \in {"idle", "loaded"}

newestFirst(log) == \A k \in 1..(Len(log) - 1) : log[k].id >= log[k + 1].id

\* C24: neither the in-memory audit log nor the persisted one holds more than
\* APP_CONFIG.maxAuditEntries entries, and both are ordered newest first.
C24_AuditLogsCappedNewestFirst ==
    /\ Len(auditLog) <= maxAuditEntries
    /\ Len(storedAuditLog) <= maxAuditEntries
    /\ newestFirst(auditLog)
    /\ newestFirst(storedAuditLog)

\* both logs are full, and the in-memory log holds two entries of this run, so
\* that the cap has dropped the oldest entries
C24_Witness ==
    /\ Len(auditLog) = maxAuditEntries
    /\ Len(storedAuditLog) = maxAuditEntries
    /\ auditLog[2].id > 0
    /\ storedAuditLog[2].id > 0

\* the number of entries of a log made at time t
entriesAt(log, t) == Cardinality({k \in 1..Len(log) : log[k].id = t})

\* a bulk update that found at least one of the selected records
bulkUpdated ==
    /\ BulkUpdatePlatoon \/ BulkUpdateStatus
    /\ \E j \in 1..Len(selectedPersonnel) :
           findIndexByName(personnelData, selectedPersonnel[j]) # 0

\* C22: a bulk update of one or more selected records leaves exactly one
\* audit entry for the whole operation in the audit trail.
C22_OneAuditEntryPerBulkOperation ==
    [][bulkUpdated =>
          entriesAt(storedAuditLog', clock) + entriesAt(auditLog', clock) = 1]_vars

\* the entries of a log that record a change of the data
changeEntries(log) == {log[k] : k \in {j \in 1..Len(log) : log[j].action # Initialized}}

\* C23: an audit entry recorded for a change stays in the persisted audit log
\* through every later save and change, unless the cap displaces it.
C23_PersistedEntriesStay ==
    [][Len(storedAuditLog') < maxAuditEntries =>
          changeEntries(storedAuditLog) \subseteq changeEntries(storedAuditLog')]_vars

\* a saveEdit that wrote to an NSF record (no name of an NSF record differs
\* between personnelData and the stored personnel, so the name tells the person)
saveEditWrote ==
    /\ SaveEdit
    /\ personnelData' # personnelData
    /\ personnelData[currentEditIndex].category = K.NSF

\* C25: saveEdit writes to the person that openEditModal loaded, whatever
\* happened to personnelData between the opening and the save.
C25_SaveEditWritesOpenedPerson ==
    [][saveEditWrote => personnelData[currentEditIndex].name = opened]_vars

\* a saveEdit that failed: the modal stays open
saveEditFailed == SaveEdit /\ currentEditIndex' # -1

\* C26: a saveEdit that fails leaves every field of the edited person as it
\* was, for Regular records too.
C26_FailedSaveEditChangesNothing ==
    [][saveEditFailed => personnelData' = personnelData]_vars

\* C28: in every record of personnelData platoon and unit are equal.
C28_PlatoonEqualsUnit ==
    \A k \in 1..Len(personnelData) : personnelData[k].platoon = personnelData[k].unit

\* C29: deletePersonnel removes the record open in the edit modal and no
\* other, whatever the name field holds.
C29_DeleteRemovesOpenedRecord ==
    [][(DeletePersonnel /\ personnelData' # personnelData) =>
          \E k \in 1..Len(personnelData) :
              /\ personnelData[k].name = opened
              /\ personnelData' = spliced(personnelData, k)]_vars

====
